---- MODULE Spec2Model ----
(***************************************************************************)
(* Verification model of the orderbook / trading-engine repository.        *)
(*                                                                         *)
(* Part 1: the position and bankroll manager (src/src/position_manager.rs) *)
(*         driven through its public operations (specification Spec).      *)
(* Part 2: the live feed loop (src/src/hyperliquid_feed.rs) driving the     *)
(*         manager from closed candles (specification SpecLive).           *)
(*                                                                         *)
(* f64 quantities are modelled as exact rationals [n |-> _, d |-> _] in     *)
(* lowest terms with d > 0, so every equality below is an equality of real  *)
(* numbers ("to floating-point precision" in the program).                  *)
(***************************************************************************)
EXTENDS Integers, Sequences, FiniteSets, TLC

(***************************************************************************)
(* Bounds of the model                                                     *)
(***************************************************************************)
\* number of manager operations explored in one behaviour of Spec
MaxOps == 4

(***************************************************************************)
(* f64 arithmetic as exact rational arithmetic                             *)
(***************************************************************************)
Abs(x) == IF x < 0 THEN -x ELSE x

RECURSIVE GCD(_, _)
GCD(a, b) == IF b = 0 THEN a ELSE GCD(b, a % b)

\* the rational n/d in lowest terms, d # 0
Rat(n, d) ==
    LET g == GCD(Abs(n), Abs(d))
        s == IF d < 0 THEN -1 ELSE 1
    IN  [n |-> (s * n) \div g, d |-> (s * d) \div g]

F(i) == [n |-> i, d |-> 1]

FAdd(a, b) == Rat(a.n * b.d + b.n * a.d, a.d * b.d)
FSub(a, b) == Rat(a.n * b.d - b.n * a.d, a.d * b.d)
FMul(a, b) == Rat(a.n * b.n, a.d * b.d)
\* callers guarantee b # 0 (prices and the session balance are positive)
FDiv(a, b) == Rat(a.n * b.d, a.d * b.n)
FLt(a, b) == a.n * b.d < b.n * a.d
FLe(a, b) == a.n * b.d <= b.n * a.d
FGt(a, b) == FLt(b, a)
FGe(a, b) == FLe(b, a)
\* f64::min
FMin(a, b) == IF FLe(a, b) THEN a ELSE b
FAbs(a) == [n |-> Abs(a.n), d |-> a.d]

Zero == F(0)
Hundred == F(100)
\* the exchange minimum order value used by open_long / open_short
MinOrderValue == F(10)

(***************************************************************************)
(* State                                                                   *)
(***************************************************************************)
VARIABLES
    pm,        \* the PositionManager
    call,      \* the last manager operation: name, arguments, result, manager before
    origin,    \* how the open position came to be (open_long, open_short, sync, init), the
               \* available balance before that operation, the total balance the session
               \* started with, and whether a position was ever rebuilt from the store
    now,       \* wall clock, seconds since the epoch
    build,     \* "debug" (overflow checks, panics) or "release" (wrapping arithmetic)
    panicked,  \* the process aborted on an arithmetic overflow panic
    ops,       \* number of operations performed
    phase,     \* "manager" (the manager driven alone), "boot" (run_live_trading
               \* before the first session), "live" (the feed loop) or "session"
               \* (the feed loop entered from a warmed-up feed)
    is_live,   \* LIVE_TRADING: orders are sent to the exchange
    is_running,               \* the shared running flag (Telegram start / stop)
    candle_buffer,            \* HyperliquidFeed::candle_buffer
    last_processed_candle_t,  \* HyperliquidFeed::last_processed_candle_t
    strategy,                 \* the AdaptiveStrategy: position_type, last_bollinger
    last_checked_hour,        \* the watchdog's hour tracker of the current session
    orders,    \* the orders sent to the exchange, oldest first
    store,     \* the rows of the positions table of the durable store
    ev,        \* the last event of the feed loop and what it did
    book,      \* the OrderBookImpl of the market-data pipeline
    detector,  \* the TriangularArbitrageDetector and its three books
    indicators,\* an ADX and an RSI fed candle by candle
    history    \* a call of HyperliquidHistoricalData::fetch_candles_paginated

liveVars == <<phase, is_live, is_running, candle_buffer, last_processed_candle_t,
              strategy, last_checked_hour, orders, store, ev, book, detector,
                   indicators, history>>

vars == <<pm, call, origin, now, build, panicked, ops, phase, is_live, is_running,
          candle_buffer, last_processed_candle_t, strategy, last_checked_hour,
          orders, store, ev, book, detector,
                   indicators, history>>

None == [state |-> "None"]

(***************************************************************************)
(* BankrollInfo and OpenPosition                                           *)
(***************************************************************************)
\* BankrollInfo::new
BankrollInfo_new(total_balance) ==
    [total_balance |-> total_balance,
     available_balance |-> total_balance,
     risk_percentage |-> F(1)]

\* BankrollInfo::calculate_position_size
calculate_position_size(bankroll, stop_loss_pct) ==
    IF FLe(stop_loss_pct, Zero)
    THEN Zero
    ELSE LET risk_amount == FMul(bankroll.available_balance,
                                 FDiv(bankroll.risk_percentage, Hundred))
         IN  FDiv(risk_amount, FDiv(stop_loss_pct, Hundred))

\* OpenPosition::new_long
new_long(entry_price, entry_time, position_size, stop_loss_price) ==
    [state |-> "Long",
     entry_price |-> entry_price,
     entry_time |-> entry_time,
     position_size |-> position_size,
     position_value |-> FMul(position_size, entry_price),
     stop_loss_price |-> stop_loss_price,
     stop_loss_pct |-> FMul(FDiv(FSub(entry_price, stop_loss_price), entry_price), Hundred),
     unrealized_pnl |-> Zero,
     unrealized_pnl_pct |-> Zero,
     entry_fee |-> Zero,
     db_id |-> 0]

\* OpenPosition::new_short
new_short(entry_price, entry_time, position_size, stop_loss_price) ==
    [state |-> "Short",
     entry_price |-> entry_price,
     entry_time |-> entry_time,
     position_size |-> position_size,
     position_value |-> FMul(position_size, entry_price),
     stop_loss_price |-> stop_loss_price,
     stop_loss_pct |-> FMul(FDiv(FSub(stop_loss_price, entry_price), entry_price), Hundred),
     unrealized_pnl |-> Zero,
     unrealized_pnl_pct |-> Zero,
     entry_fee |-> Zero,
     db_id |-> 0]

\* OpenPosition::update_pnl
update_pnl(pos, current_price) ==
    LET price_change == IF pos.state = "Long"
                        THEN FSub(current_price, pos.entry_price)
                        ELSE FSub(pos.entry_price, current_price)
    IN  [pos EXCEPT !.unrealized_pnl = FMul(price_change, pos.position_size),
                    !.unrealized_pnl_pct = FMul(FDiv(price_change, pos.entry_price), Hundred)]

(***************************************************************************)
(* PositionManager                                                         *)
(***************************************************************************)
\* PositionManager::new
PositionManager_new(bankroll) ==
    [bankroll |-> BankrollInfo_new(bankroll),
     position |-> None,
     closed_trades |-> <<>>,
     trade_timestamps |-> <<>>,
     initial_balance_session |-> bankroll]

\* the sizing block shared by open_long and open_short: the $10 floor, then the
\* 1x cap that is skipped when the value equals $10
clamp_position_value(computed, available_balance) ==
    LET floored == IF FLt(computed, MinOrderValue) THEN MinOrderValue ELSE computed
    IN  IF FGt(floored, available_balance) /\ floored # MinOrderValue
        THEN available_balance
        ELSE floored

\* open_long once the "position already open" guard has passed
open_long_body(m, entry_price, entry_time, stop_loss_price) ==
    LET stop_loss_pct == FMul(FDiv(FSub(entry_price, stop_loss_price), entry_price), Hundred)
        position_value == clamp_position_value(
                              calculate_position_size(m.bankroll, stop_loss_pct),
                              m.bankroll.available_balance)
        position_size == FDiv(position_value, entry_price)
        position == new_long(entry_price, entry_time, position_size, stop_loss_price)
        cost == FMin(position.position_value, m.bankroll.available_balance)
    IN  [pm |-> [m EXCEPT !.bankroll.available_balance = FSub(@, cost),
                          !.position = position],
         ret |-> position]

\* mutant of open_long: the "position already open" guard is missing
open_long_unguarded(m, entry_price, entry_time, stop_loss_price) ==
    open_long_body(m, entry_price, entry_time, stop_loss_price)

\* PositionManager::open_long
open_long(m, entry_price, entry_time, stop_loss_price) ==
    IF m.position # None
    THEN [pm |-> m, ret |-> None]
    ELSE open_long_body(m, entry_price, entry_time, stop_loss_price)

\* open_short once the "position already open" guard has passed
open_short_body(m, entry_price, entry_time, stop_loss_price) ==
    LET stop_loss_pct == FMul(FDiv(FSub(stop_loss_price, entry_price), entry_price), Hundred)
        position_value == clamp_position_value(
                              calculate_position_size(m.bankroll, stop_loss_pct),
                              m.bankroll.available_balance)
        position_size == FDiv(position_value, entry_price)
        position == new_short(entry_price, entry_time, position_size, stop_loss_price)
        cost == FMin(position.position_value, m.bankroll.available_balance)
    IN  [pm |-> [m EXCEPT !.bankroll.available_balance = FSub(@, cost),
                          !.position = position],
         ret |-> position]

\* PositionManager::open_short
open_short(m, entry_price, entry_time, stop_loss_price) ==
    IF m.position # None
    THEN [pm |-> m, ret |-> None]
    ELSE open_short_body(m, entry_price, entry_time, stop_loss_price)

\* the value close_position gives back to available_balance
exit_value(pos, exit_price) ==
    IF pos.state = "Long"
    THEN FMul(pos.position_size, exit_price)
    ELSE FSub(pos.position_value, pos.unrealized_pnl)

\* mutant of total_after_close: the gross exit value is added instead of the PnL
total_after_close_gross(total_balance, closed) ==
    FAdd(total_balance, FMul(closed.position_size, closed.exit_price))

\* close_position: self.bankroll.total_balance += closed.profit_loss
total_after_close(total_balance, closed) ==
    FAdd(total_balance, closed.profit_loss)

\* PositionManager::close_position
close_position(m, exit_price, exit_time) ==
    IF m.position = None
    THEN [pm |-> m, ret |-> None]
    ELSE LET pos == update_pnl(m.position, exit_price)
             closed == [entry_price |-> pos.entry_price,
                        exit_price |-> exit_price,
                        position_size |-> pos.position_size,
                        profit_loss |-> pos.unrealized_pnl,
                        profit_loss_pct |-> pos.unrealized_pnl_pct,
                        entry_time |-> pos.entry_time,
                        exit_time |-> exit_time,
                        trade_type |-> pos.state,
                        db_id |-> pos.db_id]
         IN  [pm |-> [m EXCEPT
                        !.position = None,
                        !.bankroll.available_balance = FAdd(@, exit_value(pos, exit_price)),
                        !.bankroll.total_balance = total_after_close(@, closed),
                        !.closed_trades = Append(@, closed),
                        !.trade_timestamps = Append(@, exit_time)],
              ret |-> closed]

\* PositionManager::update_current_pnl
update_current_pnl(m, current_price) ==
    IF m.position = None
    THEN m
    ELSE [m EXCEPT !.position = update_pnl(@, current_price)]

\* PositionManager::sync_position
sync_position(m, amount, entry_price, side, clock) ==
    LET sl_price == IF side = "Long"
                    THEN FMul(entry_price, Rat(95, 100))
                    ELSE FMul(entry_price, Rat(105, 100))
        pos == IF side = "Long"
               THEN new_long(entry_price, clock, FAbs(amount), sl_price)
               ELSE new_short(entry_price, clock, FAbs(amount), sl_price)
    IN  [m EXCEPT !.position = pos]

\* PositionManager::init, given the first row of fetch_open_positions (NoRow when
\* there is no store, the fetch failed or no row is OPEN)
NoRow == [side |-> "none"]

init(m, row) ==
    IF row = NoRow
    THEN m
    ELSE LET state == IF row.side = "LONG" THEN "Long" ELSE "Short"
             stop_loss_price == IF state = "Long"
                                THEN FMul(row.entry_price, Rat(99, 100))
                                ELSE FMul(row.entry_price, Rat(101, 100))
         IN  [m EXCEPT !.position =
                 [state |-> state,
                  entry_price |-> row.entry_price,
                  entry_time |-> row.created_at,
                  position_size |-> row.size,
                  position_value |-> FMul(row.size, row.entry_price),
                  stop_loss_price |-> stop_loss_price,
                  stop_loss_pct |-> F(1),
                  unrealized_pnl |-> Zero,
                  unrealized_pnl_pct |-> Zero,
                  entry_fee |-> Zero,
                  db_id |-> row.id]]

\* `now - t > 3600` on u64: when t > now the subtraction overflows; a release
\* build wraps to 2^64 - (t - now), which exceeds 3600 for every t the model
\* uses, and a debug build panics
OneHourSecs == 3600

older_than_hour(clock, t) ==
    IF t <= clock THEN clock - t > OneHourSecs ELSE TRUE

\* the purge loop of check_safety_limits
RECURSIVE purge(_, _, _)
purge(ts, clock, bld) ==
    IF ts = <<>>
    THEN [ts |-> ts, panic |-> FALSE]
    ELSE IF Head(ts) > clock /\ bld = "debug"
         THEN [ts |-> ts, panic |-> TRUE]
         ELSE IF older_than_hour(clock, Head(ts))
              THEN purge(Tail(ts), clock, bld)
              ELSE [ts |-> ts, panic |-> FALSE]

\* the drawdown percentage check_safety_limits computes
drawdown_pct(m) ==
    FMul(FDiv(FSub(m.initial_balance_session, m.bankroll.total_balance),
              m.initial_balance_session), Hundred)

\* PositionManager::check_safety_limits
check_safety_limits(m, max_drawdown_pct, max_trades_per_hour, clock, bld) ==
    IF FGt(drawdown_pct(m), max_drawdown_pct)
    THEN [pm |-> m, ret |-> "ErrDrawdown"]
    ELSE LET p == purge(m.trade_timestamps, clock, bld)
             m2 == [m EXCEPT !.trade_timestamps = p.ts]
         IN  IF p.panic
             THEN [pm |-> m2, ret |-> "Panic"]
             ELSE IF Len(p.ts) >= max_trades_per_hour
                  THEN [pm |-> m2, ret |-> "ErrFrequency"]
                  ELSE [pm |-> m2, ret |-> "Ok"]

(***************************************************************************)
(* Specification Spec: the manager driven through its public operations    *)
(***************************************************************************)
\* the bankroll handed to PositionManager::new, and the balance the feed
\* fetches from the exchange and writes into the manager at session start
Bankrolls == {F(5), F(8), F(50)}
EntryPrices == {F(100)}
ExitPrices == {F(90), F(110)}
\* stop-loss prices offered to open_long: 2 %, 0.5 % and 0.1 % below an entry of
\* 100, and one above it
LongStops == {F(98), Rat(995, 10), Rat(999, 10), F(105)}
\* stop-loss prices offered to open_short: 2 % and 0.1 % above an entry of 100,
\* and one below it
ShortStops == {F(102), Rat(1001, 10), F(95)}
SyncAmounts == {Rat(1, 10), Rat(-1, 10)}
DrawdownLimits == {F(5), F(100)}
TradeLimits == {1, 5}
StoreRows == {NoRow,
              [side |-> "LONG", entry_price |-> F(100), size |-> Rat(1, 10),
               created_at |-> 0, id |-> 7],
              [side |-> "SHORT", entry_price |-> F(100), size |-> Rat(1, 10),
               created_at |-> 0, id |-> 8]}
StartClock == 360000
TickSecs == 1800

(***************************************************************************)
(* OrderBookImpl: two arrays of quantities indexed by price - min_price    *)
(* and the cached indices of the best bid and the best ask.  An            *)
(* Option<usize> or Option<Price> is a record [some, v].  Quantity is u64. *)
(***************************************************************************)
NoneOpt == [some |-> FALSE, v |-> 0]
Some(x) == [some |-> TRUE, v |-> x]

\* OrderBookImpl::with_range
with_range(min_price, max_price) ==
    [bids |-> [i \in 0 .. (max_price - min_price - 1) |-> 0],
     asks |-> [i \in 0 .. (max_price - min_price - 1) |-> 0],
     best_bid_idx |-> NoneOpt,
     best_ask_idx |-> NoneOpt,
     min_price |-> min_price,
     max_price |-> max_price]

\* price_to_idx mapping a price outside the range to the nearest level
price_to_idx_clamped(b, price) ==
    IF price < b.min_price THEN Some(0)
    ELSE IF price >= b.max_price THEN Some(b.max_price - b.min_price - 1)
    ELSE Some(price - b.min_price)

\* OrderBookImpl::price_to_idx
price_to_idx(b, price) ==
    IF price >= b.min_price /\ price < b.max_price
    THEN Some(price - b.min_price)
    ELSE NoneOpt

\* OrderBookImpl::idx_to_price
idx_to_price(b, idx) == b.min_price + idx

\* OrderBookImpl::price_levels
price_levels(b) == Cardinality(DOMAIN b.bids)

\* (0..idx).rev().find(|i| bids[i] > 0)
find_bid_below(bids, idx) ==
    IF \E i \in 0 .. (idx - 1) : bids[i] > 0
    THEN Some(CHOOSE i \in 0 .. (idx - 1) :
                 bids[i] > 0 /\ \A j \in (i + 1) .. (idx - 1) : ~(bids[j] > 0))
    ELSE NoneOpt

\* (idx + 1..levels).find(|i| asks[i] > 0)
find_ask_above(asks, idx, levels) ==
    IF \E i \in (idx + 1) .. (levels - 1) : asks[i] > 0
    THEN Some(CHOOSE i \in (idx + 1) .. (levels - 1) :
                 asks[i] > 0 /\ \A j \in (idx + 1) .. (i - 1) : ~(asks[j] > 0))
    ELSE NoneOpt

\* apply_update, Set on the bid side at an index in range
set_bid(b, idx, quantity) ==
    [b EXCEPT !.bids[idx] = quantity,
              !.best_bid_idx =
                  IF quantity > 0
                  THEN IF @.some /\ idx > @.v THEN Some(idx)
                       ELSE IF @.some THEN @ ELSE Some(idx)
                  ELSE IF @ = Some(idx)
                  THEN find_bid_below([b.bids EXCEPT ![idx] = quantity], idx)
                  ELSE @]

\* Set on the ask side keeping the larger index as the best
set_ask_like_bid(b, idx, quantity) ==
    [b EXCEPT !.asks[idx] = quantity,
              !.best_ask_idx =
                  IF quantity > 0
                  THEN IF @.some /\ idx > @.v THEN Some(idx)
                       ELSE IF @.some THEN @ ELSE Some(idx)
                  ELSE IF @ = Some(idx)
                  THEN find_ask_above([b.asks EXCEPT ![idx] = quantity], idx,
                                      price_levels(b))
                  ELSE @]

\* apply_update, Set on the ask side at an index in range
set_ask(b, idx, quantity) ==
    [b EXCEPT !.asks[idx] = quantity,
              !.best_ask_idx =
                  IF quantity > 0
                  THEN IF @.some /\ idx < @.v THEN Some(idx)
                       ELSE IF @.some THEN @ ELSE Some(idx)
                  ELSE IF @ = Some(idx)
                  THEN find_ask_above([b.asks EXCEPT ![idx] = quantity], idx,
                                      price_levels(b))
                  ELSE @]

\* Remove on the bid side leaving the cached best index as it is
remove_bid_keeping_best(b, idx) == [b EXCEPT !.bids[idx] = 0]

\* apply_update, Remove on the bid side at an index in range
remove_bid(b, idx) ==
    [b EXCEPT !.bids[idx] = 0,
              !.best_bid_idx = IF @ = Some(idx)
                               THEN find_bid_below([b.bids EXCEPT ![idx] = 0], idx)
                               ELSE @]

\* apply_update, Remove on the ask side at an index in range
remove_ask(b, idx) ==
    [b EXCEPT !.asks[idx] = 0,
              !.best_ask_idx = IF @ = Some(idx)
                               THEN find_ask_above([b.asks EXCEPT ![idx] = 0], idx,
                                                   price_levels(b))
                               ELSE @]

\* the updates of interfaces::Update
Set(price, quantity, side) ==
    [kind |-> "Set", price |-> price, quantity |-> quantity, side |-> side]
Remove(price, side) ==
    [kind |-> "Remove", price |-> price, quantity |-> 0, side |-> side]

\* OrderBookImpl::apply_update
apply_update(b, update) ==
    IF ~price_to_idx(b, update.price).some
    THEN b
    ELSE IF update.kind = "Set"
    THEN IF update.side = "Bid"
         THEN set_bid(b, price_to_idx(b, update.price).v, update.quantity)
         ELSE set_ask(b, price_to_idx(b, update.price).v, update.quantity)
    ELSE IF update.side = "Bid"
         THEN remove_bid(b, price_to_idx(b, update.price).v)
         ELSE remove_ask(b, price_to_idx(b, update.price).v)

\* OrderBookImpl::get_best_bid, get_best_ask
get_best_bid(b) ==
    IF b.best_bid_idx.some THEN Some(idx_to_price(b, b.best_bid_idx.v)) ELSE NoneOpt
get_best_ask(b) ==
    IF b.best_ask_idx.some THEN Some(idx_to_price(b, b.best_ask_idx.v)) ELSE NoneOpt

\* OrderBookImpl::get_spread
get_spread(b) ==
    IF b.best_ask_idx.some /\ b.best_bid_idx.some
    THEN Some(idx_to_price(b, b.best_ask_idx.v) - idx_to_price(b, b.best_bid_idx.v))
    ELSE NoneOpt

\* the quantity array of a side
side_quantities(b, side) == IF side = "Bid" THEN b.bids ELSE b.asks

\* OrderBookImpl::get_quantity_at
get_quantity_at(b, price, side) ==
    IF ~price_to_idx(b, price).some
    THEN NoneOpt
    ELSE IF side_quantities(b, side)[price_to_idx(b, price).v] > 0
    THEN Some(side_quantities(b, side)[price_to_idx(b, price).v])
    ELSE NoneOpt

\* the specifications of the trading bot hold no order book
NoBook == with_range(0, 0)

(***************************************************************************)
(* TriangularArbitrageDetector: three order books, the fee and threshold,  *)
(* the divisors that turn a Price into an f64, and the six cached prices.  *)
(***************************************************************************)
pair1_divisor == F(10000)
pair2_divisor == F(10000)
pair3_divisor == F(100000000)

\* the detector's fields around the three books
Detector(pair1, pair2, pair3, trading_fee, min_profit_bps) ==
    [pair1 |-> pair1, pair2 |-> pair2, pair3 |-> pair3,
     trading_fee |-> trading_fee, min_profit_bps |-> min_profit_bps,
     cached_price1_ask |-> Zero, cached_price1_bid |-> Zero,
     cached_price2_ask |-> Zero, cached_price2_bid |-> Zero,
     cached_price3_ask |-> Zero, cached_price3_bid |-> Zero]

\* get_best_*().unwrap_or(0) as f64 / divisor
cached_price(best, divisor) ==
    FDiv(F(IF best.some THEN best.v ELSE 0), divisor)

\* TriangularArbitrageDetector::update_price_cache
update_price_cache(d) ==
    [d EXCEPT !.cached_price1_ask = cached_price(get_best_ask(d.pair1), pair1_divisor),
              !.cached_price1_bid = cached_price(get_best_bid(d.pair1), pair1_divisor),
              !.cached_price2_ask = cached_price(get_best_ask(d.pair2), pair2_divisor),
              !.cached_price2_bid = cached_price(get_best_bid(d.pair2), pair2_divisor),
              !.cached_price3_ask = cached_price(get_best_ask(d.pair3), pair3_divisor),
              !.cached_price3_bid = cached_price(get_best_bid(d.pair3), pair3_divisor)]

NoOpportunity == [some |-> FALSE, path |-> "none", net_profit |-> Zero,
                  expected_output |-> Zero]

\* the tail of both path checks: the opportunity when the profit in basis
\* points reaches min_profit_bps
opportunity(d, path, starting_amount, final_amount) ==
    IF FGe(FMul(FDiv(FSub(final_amount, starting_amount), starting_amount), F(10000)),
           d.min_profit_bps)
    THEN [some |-> TRUE, path |-> path,
          net_profit |-> FSub(final_amount, starting_amount),
          expected_output |-> final_amount]
    ELSE NoOpportunity

\* 1.0 - trading_fee
fee_multiplier(d) == FSub(F(1), d.trading_fee)

\* the final amount of the forward path USDC -> A -> B -> USDC
forward_final_amount(d, starting_amount) ==
    FMul(FMul(FMul(FMul(FMul(FDiv(starting_amount, d.cached_price1_ask),
                             fee_multiplier(d)),
                        d.cached_price3_bid),
                   fee_multiplier(d)),
              d.cached_price2_bid),
         fee_multiplier(d))

\* the final amount of the reverse path USDC -> B -> A -> USDC
reverse_final_amount(d, starting_amount) ==
    FMul(FMul(FMul(FDiv(FMul(FDiv(starting_amount, d.cached_price2_ask),
                             fee_multiplier(d)),
                        d.cached_price3_ask),
                   fee_multiplier(d)),
              d.cached_price1_bid),
         fee_multiplier(d))

\* TriangularArbitrageDetector::check_forward_path_fast
check_forward_path_fast(d, starting_amount) ==
    IF d.cached_price1_ask = Zero \/ d.cached_price2_bid = Zero
       \/ d.cached_price3_bid = Zero
    THEN NoOpportunity
    ELSE opportunity(d, "Forward", starting_amount,
                     forward_final_amount(d, starting_amount))

\* TriangularArbitrageDetector::check_reverse_path_fast
check_reverse_path_fast(d, starting_amount) ==
    IF d.cached_price1_bid = Zero \/ d.cached_price2_ask = Zero
       \/ d.cached_price3_ask = Zero
    THEN NoOpportunity
    ELSE opportunity(d, "Reverse", starting_amount,
                     reverse_final_amount(d, starting_amount))

\* TriangularArbitrageDetector::detect_opportunities: the detector with the
\* refreshed cache and what the two checks returned
detect_opportunities(d, starting_amount) ==
    CHOOSE r \in {[detector |-> cached,
                   forward |-> check_forward_path_fast(cached, starting_amount),
                   reverse |-> check_reverse_path_fast(cached, starting_amount)] :
                       cached \in {update_price_cache(d)}} : TRUE

\* the specifications without a detector
NoDetector == Detector(NoBook, NoBook, NoBook, Zero, Zero)

(***************************************************************************)
(* The ADX and RSI indicators of adaptive_strategy.rs, computed as the     *)
(* code computes them.                                                     *)
(***************************************************************************)
\* Option<f64>::None
NoValue == [some |-> FALSE, v |-> Zero]

\* f64::max
FMax(a, b) == IF FGe(a, b) THEN a ELSE b

\* iter().sum::<f64>()
RECURSIVE FSum(_)
FSum(s) == IF s = <<>> THEN Zero ELSE FAdd(FSum(SubSeq(s, 1, Len(s) - 1)), s[Len(s)])

\* ADX::new
ADX_new(period) ==
    [period |-> period,
     tr_buf |-> <<>>, plus_dm_buf |-> <<>>, minus_dm_buf |-> <<>>, dx_buf |-> <<>>,
     tr_smooth |-> Zero, plus_dm_smooth |-> Zero, minus_dm_smooth |-> Zero,
     adx_smooth |-> Zero,
     prev |-> [some |-> FALSE, high |-> Zero, low |-> Zero, close |-> Zero]]

\* 1. True Range
true_range(a, high, low, close) ==
    FMax(FMax(FSub(high, low), FAbs(FSub(high, a.prev.close))),
         FAbs(FSub(low, a.prev.close)))

\* 2. Directional Movement
plus_dm(a, high, low) ==
    IF FGt(FSub(high, a.prev.high), FSub(a.prev.low, low))
       /\ FGt(FSub(high, a.prev.high), Zero)
    THEN FSub(high, a.prev.high) ELSE Zero
minus_dm(a, high, low) ==
    IF FGt(FSub(a.prev.low, low), FSub(high, a.prev.high))
       /\ FGt(FSub(a.prev.low, low), Zero)
    THEN FSub(a.prev.low, low) ELSE Zero

\* RMA = prev * (1 - alpha) + curr * alpha with alpha = 1 / period
wilder(prev, curr, period) ==
    FAdd(FMul(prev, FSub(F(1), FDiv(F(1), F(period)))),
         FMul(curr, FDiv(F(1), F(period))))

\* Phase 1 and 2: the first period values are buffered and averaged, later
\* ones are smoothed
smooth_tr_dm(a, tr, pdm, mdm) ==
    IF Len(a.tr_buf) < a.period
    THEN IF Len(a.tr_buf) + 1 = a.period
         THEN [a EXCEPT !.tr_buf = Append(@, tr),
                        !.plus_dm_buf = Append(@, pdm),
                        !.minus_dm_buf = Append(@, mdm),
                        !.tr_smooth = FDiv(FSum(Append(a.tr_buf, tr)), F(a.period)),
                        !.plus_dm_smooth =
                            FDiv(FSum(Append(a.plus_dm_buf, pdm)), F(a.period)),
                        !.minus_dm_smooth =
                            FDiv(FSum(Append(a.minus_dm_buf, mdm)), F(a.period))]
         ELSE [a EXCEPT !.tr_buf = Append(@, tr),
                        !.plus_dm_buf = Append(@, pdm),
                        !.minus_dm_buf = Append(@, mdm)]
    ELSE [a EXCEPT !.tr_smooth = wilder(@, tr, a.period),
                   !.plus_dm_smooth = wilder(@, pdm, a.period),
                   !.minus_dm_smooth = wilder(@, mdm, a.period)]

\* 100 * |di_plus - di_minus| / sum_di without the absolute value
directional_index_signed(di_plus, di_minus) ==
    IF FAdd(di_plus, di_minus) = Zero THEN Zero
    ELSE FDiv(FMul(Hundred, FSub(di_plus, di_minus)), FAdd(di_plus, di_minus))

\* dx = 100 * |di_plus - di_minus| / sum_di, 0 when sum_di is 0
directional_index(di_plus, di_minus) ==
    IF FAdd(di_plus, di_minus) = Zero THEN Zero
    ELSE FDiv(FMul(Hundred, FAbs(FSub(di_plus, di_minus))), FAdd(di_plus, di_minus))

\* the DX of the smoothed values, 0 when tr_smooth is 0
dx_of(a) ==
    IF a.tr_smooth = Zero THEN Zero
    ELSE directional_index(FMul(Hundred, FDiv(a.plus_dm_smooth, a.tr_smooth)),
                           FMul(Hundred, FDiv(a.minus_dm_smooth, a.tr_smooth)))

\* Phase 3 and 4: the first period DX values are buffered and averaged, later
\* ones are smoothed
smooth_dx(a, dx) ==
    IF Len(a.tr_buf) < a.period THEN a
    ELSE IF Len(a.dx_buf) < a.period
    THEN IF Len(a.dx_buf) + 1 = a.period
         THEN [a EXCEPT !.dx_buf = Append(@, dx),
                        !.adx_smooth = FDiv(FSum(Append(a.dx_buf, dx)), F(a.period))]
         ELSE [a EXCEPT !.dx_buf = Append(@, dx)]
    ELSE [a EXCEPT !.adx_smooth = wilder(@, dx, a.period)]

\* the value is returned once the TR/DM buffer is full, one phase early
adx_ready_after_first_phase(a) == Len(a.tr_buf) >= a.period

\* if self.dx_buf.len() >= self.period { Some(self.adx_smooth) } else { None }
adx_ready(a) == Len(a.dx_buf) >= a.period

\* x evaluated once and handed to Body
With(x, Body(_)) == CHOOSE r \in {Body(v) : v \in {x}} : TRUE

\* the indicator after the body of 'if let (Some(ph), Some(pl), Some(pc))'
adx_phases(a, high, low, close) ==
    IF ~a.prev.some THEN a
    ELSE With(smooth_tr_dm(a, true_range(a, high, low, close),
                           plus_dm(a, high, low), minus_dm(a, high, low)),
              LAMBDA a2 : smooth_dx(a2, dx_of(a2)))

\* ADX::update: the indicator afterwards and the returned Option
ADX_update(a, high, low, close) ==
    With([adx_phases(a, high, low, close) EXCEPT
              !.prev = [some |-> TRUE, high |-> high, low |-> low, close |-> close]],
         LAMBDA a3 : [adx |-> a3,
                      out |-> IF adx_ready(a3) THEN Some(a3.adx_smooth) ELSE NoValue])

\* RSI::new
RSI_new(period) ==
    [period |-> period, prices |-> <<>>,
     prev_avg_gain |-> NoValue, prev_avg_loss |-> NoValue]

\* prices.push_back(price) and pop_front() beyond period + 1 prices
rsi_prices(r, price) ==
    IF Len(r.prices) + 1 > r.period + 1 THEN Append(Tail(r.prices), price)
    ELSE Append(r.prices, price)

\* the gains of the changes between consecutive prices
RECURSIVE gains(_)
gains(prices) ==
    IF Len(prices) < 2 THEN Zero
    ELSE FAdd(gains(SubSeq(prices, 1, Len(prices) - 1)),
              IF FGt(FSub(prices[Len(prices)], prices[Len(prices) - 1]), Zero)
              THEN FSub(prices[Len(prices)], prices[Len(prices) - 1]) ELSE Zero)

\* the losses of the changes between consecutive prices
RECURSIVE losses(_)
losses(prices) ==
    IF Len(prices) < 2 THEN Zero
    ELSE FAdd(losses(SubSeq(prices, 1, Len(prices) - 1)),
              IF FGt(FSub(prices[Len(prices)], prices[Len(prices) - 1]), Zero)
              THEN Zero ELSE FAbs(FSub(prices[Len(prices)], prices[Len(prices) - 1])))

\* rs and the returned 100 - 100 / (1 + rs)
rsi_value(avg_gain, avg_loss) ==
    FSub(Hundred, FDiv(Hundred, FAdd(F(1), IF avg_loss = Zero THEN Hundred
                                            ELSE FDiv(avg_gain, avg_loss))))

\* the change of the last price
last_change(prices) == FSub(prices[Len(prices)], prices[Len(prices) - 1])

\* (prev_avg * (period - 1) + current) / period
rsi_smooth(prev_avg, current, period) ==
    FDiv(FAdd(FMul(prev_avg, FSub(F(period), F(1))), current), F(period))

\* the indicator with the two averages stored, and the returned value
rsi_emit(r, prices, avg_gain, avg_loss) ==
    [rsi |-> [r EXCEPT !.prices = prices, !.prev_avg_gain = Some(avg_gain),
                       !.prev_avg_loss = Some(avg_loss)],
     out |-> Some(rsi_value(avg_gain, avg_loss))]

\* RSI::update over the prices after the push: the indicator afterwards and
\* the returned Option
rsi_update_pushed(r, prices) ==
    IF Len(prices) < 2 THEN [rsi |-> [r EXCEPT !.prices = prices], out |-> NoValue]
    ELSE IF ~r.prev_avg_gain.some
    THEN IF Len(prices) <= r.period
         THEN [rsi |-> [r EXCEPT !.prices = prices], out |-> NoValue]
         ELSE rsi_emit(r, prices, FDiv(gains(prices), F(r.period)),
                       FDiv(losses(prices), F(r.period)))
    ELSE rsi_emit(r, prices,
                  rsi_smooth(r.prev_avg_gain.v,
                             IF FGt(last_change(prices), Zero)
                             THEN last_change(prices) ELSE Zero, r.period),
                  rsi_smooth(r.prev_avg_loss.v,
                             IF FLt(last_change(prices), Zero)
                             THEN FAbs(last_change(prices)) ELSE Zero, r.period))

\* RSI::update
RSI_update(r, price) == rsi_update_pushed(r, rsi_prices(r, price))

\* the specifications without indicators
NoIndicators ==
    [adx |-> ADX_new(1), rsi |-> RSI_new(1), adx_out |-> NoValue, rsi_out |-> NoValue,
     seeded |-> FALSE]

(***************************************************************************)
(* fetch_candles_paginated of hyperliquid_historical.rs.  Times are in     *)
(* hours (the code's milliseconds divided by 60 * 60 * 1000); a candle is  *)
(* its open time t.                                                        *)
(***************************************************************************)
MAX_CANDLES_PER_REQUEST == 5000
CANDLES_PER_YEAR == 8760

\* (x / y).ceil() for positive y
CeilDiv(x, y) == (x + y - 1) \div y

\* num_requests = (days_of_data / (MAX_CANDLES_PER_REQUEST / 24)).ceil()
num_requests(start_time, end_time) ==
    CeilDiv(end_time - start_time, MAX_CANDLES_PER_REQUEST)

\* (MAX_CANDLES_PER_REQUEST - 1) hours
hours_per_request == MAX_CANDLES_PER_REQUEST - 1

\* the step back before the next request, 1000 * 60 * 60 ms
overlap_hours == 1

\* std::cmp::min(current_start + hours_per_request, end_time)
current_end(h) ==
    IF h.current_start + hours_per_request <= h.end_time
    THEN h.current_start + hours_per_request ELSE h.end_time

\* the first open time at or after t on the grid of the interval
first_open(t, interval) == CeilDiv(t, interval) * interval

\* the exchange's answer to a candleSnapshot request: the candles of the
\* interval that open in [start_time, end_time] since the coin was listed
candleSnapshot(start_time, end_time, interval, listed_from) ==
    IF first_open(IF start_time >= listed_from THEN start_time ELSE listed_from,
                  interval) > end_time
    THEN <<>>
    ELSE [i \in 1 .. ((end_time - first_open(IF start_time >= listed_from
                                             THEN start_time ELSE listed_from,
                                             interval)) \div interval + 1) |->
            first_open(IF start_time >= listed_from THEN start_time ELSE listed_from,
                       interval) + (i - 1) * interval]

\* all_candles.sort_by_key(|c| c.t)
sort_by_key(s) == SortSeq(s, LAMBDA a, b : a < b)

\* two deduplicated halves joined
dedup_join(left, right) ==
    IF left # <<>> /\ right # <<>> /\ left[Len(left)] = right[1]
    THEN left \o Tail(right) ELSE left \o right

\* all_candles.dedup_by_key(|c| c.t): consecutive equal keys keep the first
RECURSIVE dedup_by_key(_)
dedup_by_key(s) ==
    IF Len(s) <= 1 THEN s
    ELSE With(dedup_by_key(SubSeq(s, 1, Len(s) \div 2)),
              LAMBDA left :
                  With(dedup_by_key(SubSeq(s, Len(s) \div 2 + 1, Len(s))),
                       LAMBDA right : dedup_join(left, right)))

\* the state of one call of fetch_candles_paginated before its first request
fetch_candles_paginated(start_time, end_time, interval, listed_from) ==
    [start_time |-> start_time, end_time |-> end_time,
     interval |-> interval, listed_from |-> listed_from,
     num_requests |-> num_requests(start_time, end_time),
     request_num |-> 1, current_start |-> start_time,
     requests |-> <<>>, all_candles |-> <<>>,
     at |-> "loop", empty_response |-> FALSE, result |-> <<>>]

\* current_start = current_end - (1000 * 60 * 60)
next_start(h) == current_end(h) - overlap_hours

\* one iteration of 'for request_num in 1..=num_requests' that received
\* candles
request_answered(h, candles) ==
    [h EXCEPT !.requests = Append(@, [start_time |-> h.current_start,
                                      end_time |-> current_end(h)]),
              !.all_candles = @ \o candles,
              !.current_start = next_start(h),
              !.request_num = @ + 1,
              !.at = IF next_start(h) >= h.end_time \/ h.request_num = h.num_requests
                     THEN "sort" ELSE "loop"]

\* one iteration that received no candle: break
request_empty(h) ==
    [h EXCEPT !.requests = Append(@, [start_time |-> h.current_start,
                                      end_time |-> current_end(h)]),
              !.empty_response = TRUE,
              !.at = "sort"]

\* the tail of fetch_candles_paginated: sort, dedup, Ok(all_candles)
fetch_return(h) ==
    [h EXCEPT !.result = dedup_by_key(sort_by_key(h.all_candles)),
              !.at = "returned"]

\* the specifications without a historical fetch
NoFetch == [fetch_candles_paginated(0, 0, 1, 0) EXCEPT !.at = "none"]

\* AdaptiveStrategy::new, the fields the signals depend on (current_regime is
\* written by update before it is read and is a local of strategy_update)
NoBands == [some |-> FALSE, lower |-> Zero, middle |-> Zero, upper |-> Zero]

\* applied_t and reapplied are history variables: the open time of the newest
\* candle the indicators were updated with (0: none yet), and whether update
\* was ever given a candle that is not newer than that
AdaptiveStrategy_new ==
    [position_type |-> "None", last_bollinger |-> NoBands,
     applied_t |-> 0, reapplied |-> FALSE]

\* execute_strategy_logic was not called
NoExec == [called |-> FALSE, candle |-> [t |-> 0, o |-> 0, h |-> 0, l |-> 0, c |-> 0],
           price |-> Zero]

\* no feed event yet
NoEvent(m) == [kind |-> "none", t |-> 0, safety |-> "none", signal |-> "none",
               pre |-> m, pre_position_type |-> "None", pre_orders |-> 0,
               pre_store |-> <<>>, pre_buffer |-> 0, failed_before |-> FALSE,
               pre_back_t |-> 0, exec |-> NoExec]

NoCall(m) == [op |-> "new", ret |-> None, pre |-> m, price |-> Zero, sl |-> Zero,
              max_dd |-> Zero, max_trades |-> 0]
NoOrigin == [by |-> "none", avail_before |-> Zero, session_start |-> Zero,
             from_store |-> FALSE]

Init ==
    /\ \E b \in Bankrolls :
         /\ pm = PositionManager_new(b)
         /\ call = NoCall(PositionManager_new(b))
         /\ origin = [NoOrigin EXCEPT !.session_start = b]
    /\ now = StartClock
    /\ build = "release"
    /\ panicked = FALSE
    /\ ops = 0
    /\ phase = "manager"
    /\ is_live = FALSE
    /\ is_running = TRUE
    /\ candle_buffer = <<>>
    /\ last_processed_candle_t = 0
    /\ strategy = AdaptiveStrategy_new
    /\ last_checked_hour = 0
    /\ orders = <<>>
    /\ store = <<>>
    /\ ev = NoEvent(PositionManager_new(Zero))
    /\ book = NoBook
    /\ detector = NoDetector
    /\ indicators = NoIndicators
    /\ history = NoFetch

Step == /\ ops < MaxOps
        /\ ops' = ops + 1
        /\ ~panicked
        /\ phase = "manager"
        /\ UNCHANGED liveVars

\* run_live_trading: pm.init() right after PositionManager::new
StoreInit ==
    /\ Step
    /\ call.op = "new"
    /\ \E row \in StoreRows :
         /\ pm' = init(pm, row)
         /\ call' = [NoCall(pm) EXCEPT !.op = "init"]
         /\ origin' = IF row = NoRow THEN origin
                      ELSE [origin EXCEPT !.by = "init",
                                          !.avail_before = pm.bankroll.available_balance,
                                          !.from_store = TRUE]
    /\ UNCHANGED <<now, build, panicked>>

\* connect_and_trade: the fetched bankroll is written into the manager when the
\* trading session starts
FetchBankroll ==
    /\ Step
    /\ call.op \in {"new", "init", "sync_position"}
    /\ pm.closed_trades = <<>>
    /\ \E b \in Bankrolls :
         /\ pm' = [pm EXCEPT !.bankroll.total_balance = b,
                             !.bankroll.available_balance = b]
         /\ call' = [NoCall(pm) EXCEPT !.op = "fetch_bankroll"]
         /\ origin' = [origin EXCEPT !.session_start = b]
    /\ UNCHANGED <<now, build, panicked>>

OpenLong ==
    /\ Step
    /\ \E e \in EntryPrices, sl \in LongStops :
         LET r == open_long(pm, e, now, sl) IN
         /\ pm' = r.pm
         /\ call' = [NoCall(pm) EXCEPT !.op = "open_long", !.ret = r.ret,
                                       !.price = e, !.sl = sl]
         /\ origin' = IF r.ret = None THEN origin
                      ELSE [origin EXCEPT !.by = "open_long",
                                          !.avail_before = pm.bankroll.available_balance]
    /\ UNCHANGED <<now, build, panicked>>

OpenShort ==
    /\ Step
    /\ \E e \in EntryPrices, sl \in ShortStops :
         LET r == open_short(pm, e, now, sl) IN
         /\ pm' = r.pm
         /\ call' = [NoCall(pm) EXCEPT !.op = "open_short", !.ret = r.ret,
                                       !.price = e, !.sl = sl]
         /\ origin' = IF r.ret = None THEN origin
                      ELSE [origin EXCEPT !.by = "open_short",
                                          !.avail_before = pm.bankroll.available_balance]
    /\ UNCHANGED <<now, build, panicked>>

ClosePosition ==
    /\ Step
    /\ \E x \in ExitPrices :
         LET r == close_position(pm, x, now) IN
         /\ pm' = r.pm
         /\ call' = [NoCall(pm) EXCEPT !.op = "close_position", !.ret = r.ret,
                                       !.price = x]
    /\ UNCHANGED <<origin, now, build, panicked>>

UpdateCurrentPnl ==
    /\ Step
    /\ \E x \in ExitPrices :
         /\ pm' = update_current_pnl(pm, x)
         /\ call' = [NoCall(pm) EXCEPT !.op = "update_current_pnl", !.price = x]
    /\ UNCHANGED <<origin, now, build, panicked>>

SyncPosition ==
    /\ Step
    /\ \E a \in SyncAmounts, e \in EntryPrices :
         /\ pm' = sync_position(pm, a, e, IF a.n > 0 THEN "Long" ELSE "Short", now)
         /\ call' = [NoCall(pm) EXCEPT !.op = "sync_position", !.price = e]
         /\ origin' = [origin EXCEPT !.by = "sync_position",
                                     !.avail_before = pm.bankroll.available_balance]
    /\ UNCHANGED <<now, build, panicked>>

CheckSafetyLimits ==
    /\ Step
    /\ \E dd \in DrawdownLimits, mt \in TradeLimits :
         LET r == check_safety_limits(pm, dd, mt, now, build) IN
         /\ pm' = r.pm
         /\ call' = [NoCall(pm) EXCEPT !.op = "check_safety_limits", !.ret = r.ret,
                                       !.max_dd = dd, !.max_trades = mt]
         /\ panicked' = (r.ret = "Panic")
    /\ UNCHANGED <<origin, now, build>>

\* the wall clock advances
Tick ==
    /\ Step
    /\ now' = now + TickSecs
    /\ call' = [NoCall(pm) EXCEPT !.op = "tick"]
    /\ UNCHANGED <<pm, origin, build, panicked>>

Next ==
    \/ StoreInit
    \/ FetchBankroll
    \/ OpenLong
    \/ OpenShort
    \/ ClosePosition
    \/ UpdateCurrentPnl
    \/ SyncPosition
    \/ CheckSafetyLimits
    \/ Tick

Spec == Init /\ [][Next]_vars

(***************************************************************************)
(* Claims about the position manager (specification Spec)                  *)
(***************************************************************************)
OpenOps == {"open_long", "open_short"}
Opened == call.op \in OpenOps /\ call.ret # None
Closed == call.op = "close_position" /\ call.ret # None

\* C1: open_long or open_short called while a position is held returns None and
\* leaves the position, the bankroll and the closed-trade ledger unchanged.
C1_OpenRejectedWhilePositionHeld ==
    (call.op \in OpenOps /\ call.pre.position # None)
        => /\ call.ret = None
           /\ pm.position = call.pre.position
           /\ pm.bankroll = call.pre.bankroll
           /\ pm.closed_trades = call.pre.closed_trades

\* C1 witness: an open_long arrived while a Short position was held.
C1_Witness ==
    /\ call.op = "open_long"
    /\ call.pre.position # None
    /\ call.pre.position.state = "Short"

\* C2: a close_position that closes a position changes total_balance by exactly
\* the profit_loss of the ledger entry it appends; open_long, open_short,
\* update_current_pnl and sync_position leave total_balance unchanged.
C2_TotalBalanceMovesByLedgerPnl ==
    /\ Closed =>
         /\ Len(pm.closed_trades) = Len(call.pre.closed_trades) + 1
         /\ pm.closed_trades[Len(pm.closed_trades)] = call.ret
         /\ FSub(pm.bankroll.total_balance, call.pre.bankroll.total_balance)
              = pm.closed_trades[Len(pm.closed_trades)].profit_loss
    /\ call.op \in OpenOps \cup {"update_current_pnl", "sync_position"}
         => pm.bankroll.total_balance = call.pre.bankroll.total_balance

\* C2 witness: a Short position was closed at a loss.
C2_Witness ==
    /\ Closed
    /\ call.ret.trade_type = "Short"
    /\ FLt(call.ret.profit_loss, Zero)

\* C3 (as claimed): available_balance <= total_balance after any sequence of
\* open_long, open_short, close_position and sync_position calls.
C3_AvailableAtMostTotal ==
    ~origin.from_store
        => FLe(pm.bankroll.available_balance, pm.bankroll.total_balance)

\* C4 (as claimed): closing a position opened by open_long or open_short leaves
\* available_balance at its value before the open plus the trade's PnL.
C4_CloseRestoresCollateralPlusPnl ==
    (Closed /\ origin.by \in OpenOps)
        => pm.bankroll.available_balance
             = FAdd(origin.avail_before, call.ret.profit_loss)

\* C5 (as claimed): an open position has its stop-loss strictly below the entry
\* price when Long and strictly above it when Short.
C5_StopLossOnSafeSide ==
    pm.position # None =>
        IF pm.position.state = "Long"
        THEN FLt(pm.position.stop_loss_price, pm.position.entry_price)
        ELSE FGt(pm.position.stop_loss_price, pm.position.entry_price)

\* the notional the sizing rule of the specification gives: N = available *
\* (risk/100) / d with d = |entry - sl| / entry, raised to $10 when below,
\* capped at available when above unless the floor produced it
ClaimedNotional(bankroll, entry_price, stop_loss_price) ==
    LET d == FDiv(FAbs(FSub(entry_price, stop_loss_price)), entry_price)
        n == FDiv(FMul(bankroll.available_balance,
                       FDiv(bankroll.risk_percentage, Hundred)), d)
    IN  IF FLt(n, MinOrderValue) THEN MinOrderValue
        ELSE IF FGt(n, bankroll.available_balance) THEN bankroll.available_balance
        ELSE n

\* C6 (as claimed): open_long and open_short open a position whose notional is
\* the one the sizing rule gives and whose size is that notional over the entry.
C6_SizingRule ==
    Opened =>
        LET n == ClaimedNotional(call.pre.bankroll, call.price, call.sl) IN
        /\ call.ret.position_value = n
        /\ call.ret.position_size = FDiv(n, call.price)

\* C7 (as claimed): with available_balance below $10 every open has a notional of
\* exactly $10, whatever the stop-loss distance.
C7_FloorBelowTenDollars ==
    (Opened /\ FLt(call.pre.bankroll.available_balance, MinOrderValue))
        => call.ret.position_value = MinOrderValue

\* C9 (as claimed): check_safety_limits fails on drawdown exactly when the loss
\* relative to the total balance the session started with exceeds max_dd_pct.
C9_DrawdownAgainstSessionStart ==
    (call.op = "check_safety_limits" /\ FGt(origin.session_start, Zero))
        => ((call.ret = "ErrDrawdown")
              <=> FGt(FMul(FDiv(FSub(origin.session_start,
                                     call.pre.bankroll.total_balance),
                                origin.session_start), Hundred),
                      call.max_dd))

(***************************************************************************)
(* AdaptiveStrategy.  The indicator values of a candle (Bollinger bands,   *)
(* SuperTrend direction, ADX) are inputs: ind.bb, ind.st and ind.adx carry  *)
(* `some` = FALSE while the indicator has not emitted yet.                  *)
(***************************************************************************)
\* the feed builds its strategy with adx_threshold: 10.0
adx_threshold == F(10)

\* update returns Hold before the match unless Bollinger, SuperTrend and ADX
\* have all returned a value (mutant: the ADX's missing value is not checked)
all_emitted_without_adx(ind) == ind.bb.some /\ ind.st.some

all_emitted(ind) == ind.bb.some /\ ind.st.some /\ ind.adx.some

\* update, step 2: the market regime
regime_of(adx_value) == IF FGe(adx_value, adx_threshold) THEN "Trending" ELSE "Ranging"

\* what update returns: the strategy it leaves and the signal
Hold(st) == [strategy |-> st, signal |-> "Hold"]
Move(st, pt, sig) == [strategy |-> [st EXCEPT !.position_type = pt], signal |-> sig]

\* mutant of flat_update: the oversold entry is taken in either regime
flat_update_any_regime(st, ind, close) ==
    IF FLt(close, ind.bb.lower) THEN Move(st, "LongRange", "BuyRange") ELSE Hold(st)

\* update, the arm PositionType::None
flat_update(st, ind, close) ==
    IF regime_of(ind.adx.value) = "Ranging"
    THEN IF FLt(close, ind.bb.lower) THEN Move(st, "LongRange", "BuyRange") ELSE Hold(st)
    ELSE IF ind.st.up /\ FGt(close, ind.bb.upper)
         THEN Move(st, "LongTrend", "BuyTrend")
         ELSE IF ~ind.st.up /\ FLt(close, ind.bb.lower)
              THEN Move(st, "ShortTrend", "SellShort")
              ELSE Hold(st)

\* mutant of long_range_update: the exit at the middle band tests the close
long_range_update_on_close(st, ind, high, close) ==
    IF FGe(close, ind.bb.middle)
    THEN Move(st, "None", "SellRange")
    ELSE IF regime_of(ind.adx.value) = "Trending" /\ FGt(close, ind.bb.middle)
         THEN Move(st, "LongTrend", "UpgradeToTrend")
         ELSE IF FLt(close, FMul(ind.bb.lower, Rat(95, 100)))
              THEN Move(st, "None", "SellRange")
              ELSE Hold(st)

\* update, the arm PositionType::LongRange
long_range_update(st, ind, high, close) ==
    IF FGe(high, ind.bb.middle)
    THEN Move(st, "None", "SellRange")
    ELSE IF regime_of(ind.adx.value) = "Trending" /\ FGt(close, ind.bb.middle)
         THEN Move(st, "LongTrend", "UpgradeToTrend")
         ELSE IF FLt(close, FMul(ind.bb.lower, Rat(95, 100)))
              THEN Move(st, "None", "SellRange")
              ELSE Hold(st)

\* update, the arm PositionType::LongTrend
long_trend_update(st, ind) ==
    IF ~ind.st.up THEN Move(st, "None", "SellTrend") ELSE Hold(st)

\* mutant of short_trend_update: the long arm's test copied unchanged
short_trend_update_like_long(st, ind) ==
    IF ~ind.st.up THEN Move(st, "None", "CoverShort") ELSE Hold(st)

\* update, the arm PositionType::ShortTrend
short_trend_update(st, ind) ==
    IF ind.st.up THEN Move(st, "None", "CoverShort") ELSE Hold(st)

\* update, step 3: the match on position_type
regime_logic(st, ind, high, close) ==
    CASE st.position_type = "None" -> flat_update(st, ind, close)
      [] st.position_type = "LongRange" -> long_range_update(st, ind, high, close)
      [] st.position_type = "LongTrend" -> long_trend_update(st, ind)
      [] OTHER -> short_trend_update(st, ind)

\* update, step 1: last_bollinger keeps the bands Bollinger returned
with_bands(st, ind) == IF ind.bb.some THEN [st EXCEPT !.last_bollinger = ind.bb] ELSE st

\* AdaptiveStrategy::update
strategy_update(st, ind, high, low, close) ==
    IF all_emitted(ind)
    THEN regime_logic(with_bands(st, ind), ind, high, close)
    ELSE Hold(with_bands(st, ind))

\* mutant of check_exit_condition: the position type is not looked at
check_exit_condition_any_position(st, current_high) ==
    IF /\ st.last_bollinger.some
       /\ FGe(current_high, st.last_bollinger.middle)
    THEN "SellRange"
    ELSE "none"

\* AdaptiveStrategy::check_exit_condition: "SellRange" or "none"
check_exit_condition(st, current_high) ==
    IF /\ st.position_type = "LongRange"
       /\ st.last_bollinger.some
       /\ FGe(current_high, st.last_bollinger.middle)
    THEN "SellRange"
    ELSE "none"

\* AdaptiveStrategy::force_exit
force_exit(st) == [st EXCEPT !.position_type = "None"]

(***************************************************************************)
(* HyperliquidFeed::handle_trading_signal.  w is the trading state the     *)
(* handler works on: the manager, the orders sent and the store rows.  env *)
(* is what the outside answers: whether the market order is accepted, the  *)
(* fill found afterwards (if any) and whether the store saves the row.     *)
(***************************************************************************)
EntryRetries == 3
ExitRetries == 10

\* (x * 100.0).round() / 100.0 for x >= 0
Round2(x) == Rat((200 * x.n + x.d) \div (2 * x.d), 100)

\* HyperliquidTrader::place_market_order against an exchange that refuses the
\* next `refusals` attempts: one attempt, no wait
place_market_order(refusals) ==
    [ok |-> refusals = 0, attempts |-> 1, waited |-> 0]

\* the loop of place_market_order_with_retry: `attempt` attempts have failed and
\* `waited` seconds were slept so far
RECURSIVE retry_loop(_, _, _, _)
retry_loop(refusals, max_retries, attempt, waited) ==
    IF place_market_order(refusals - attempt).ok
    THEN [ok |-> TRUE, attempts |-> attempt + 1, waited |-> waited]
    ELSE IF attempt + 1 >= max_retries
    THEN [ok |-> FALSE, attempts |-> attempt + 1, waited |-> waited]
    ELSE retry_loop(refusals, max_retries, attempt + 1, waited + 2 ^ (attempt + 1))

\* HyperliquidTrader::place_market_order_with_retry
place_market_order_with_retry(refusals, max_retries) ==
    retry_loop(refusals, max_retries, 0, 0)

\* what the outside answered to a signal execution once its market order
\* returned r
Answered(env, r) ==
    [order_ok |-> r.ok, attempts |-> r.attempts, waited |-> r.waited,
     fill |-> env.fill, save_ok |-> env.save_ok]

\* the entry order: with retry for a long, a single attempt for a short
entry_order(env, long) ==
    Answered(env, IF long
                  THEN place_market_order_with_retry(env.refusals, EntryRetries)
                  ELSE place_market_order(env.refusals))

\* the exit order: with retry for a long, a single attempt for a short
exit_order(env, long) ==
    Answered(env, IF long
                  THEN place_market_order_with_retry(env.refusals, ExitRetries)
                  ELSE place_market_order(env.refusals))

\* a market-equivalent order as the exchange sees it: max_attempts is 1 for
\* place_market_order and max_retries for place_market_order_with_retry
MarketOrder(is_buy, size, max_attempts, env) ==
    [kind |-> "market", is_buy |-> is_buy, size |-> size, price |-> Zero,
     max_attempts |-> max_attempts, ok |-> env.order_ok,
     attempts |-> env.attempts, waited |-> env.waited]

StopLossOrder(is_buy, price, size) ==
    [kind |-> "stop", is_buy |-> is_buy, size |-> size, price |-> price,
     max_attempts |-> 1, ok |-> TRUE, attempts |-> 1, waited |-> 0]

\* the position after the fill lookup: entry price, fee and stop-loss are
\* replaced by the fill's when the order was accepted and a fill was found
position_after_fill(position, sl_factor, live, env) ==
    IF live /\ env.order_ok /\ env.fill.some
    THEN [position EXCEPT !.entry_price = env.fill.px,
                          !.entry_fee = env.fill.fee,
                          !.stop_loss_price = FMul(env.fill.px, sl_factor),
                          !.stop_loss_pct = F(5)]
    ELSE position

\* the orders an entry sends: nothing in a dry run, the market order, and the
\* stop-loss order once the market order was accepted
orders_after_entry(sent, long, size, pos, live, env) ==
    IF ~live
    THEN sent
    ELSE IF env.order_ok
    THEN sent \o <<MarketOrder(long, size, IF long THEN EntryRetries ELSE 1, env),
                   StopLossOrder(~long, Round2(pos.stop_loss_price), size)>>
    ELSE Append(sent, MarketOrder(long, size, IF long THEN EntryRetries ELSE 1, env))

\* the row save_position inserts
OpenRow(id, long, pos) ==
    [id |-> id, side |-> IF long THEN "LONG" ELSE "SHORT",
     entry_price |-> pos.entry_price, size |-> pos.position_size,
     status |-> "OPEN", exit_price |-> Zero, created_at |-> 0]

\* entry_opened undoing the entry when the market order is refused
entry_opened_rollback(w, long, m, pos, live, env) ==
    IF live /\ ~env.order_ok
    THEN [w EXCEPT !.orders = orders_after_entry(w.orders, long, pos.position_size,
                                                 pos, live, env)]
    ELSE [w EXCEPT !.pm = [m EXCEPT !.position =
                             IF env.save_ok THEN [pos EXCEPT !.db_id = Len(w.store) + 1]
                             ELSE pos],
                   !.orders = orders_after_entry(w.orders, long, pos.position_size,
                                                 pos, live, env),
                   !.store = IF env.save_ok
                             THEN Append(w.store, OpenRow(Len(w.store) + 1, long, pos))
                             ELSE w.store]

\* the Buy* and SellShort arms once the manager opened the position (m is the
\* manager after the open, pos the position after the fill lookup)
entry_opened(w, long, m, pos, live, env) ==
    [w EXCEPT !.pm = [m EXCEPT !.position =
                        IF env.save_ok THEN [pos EXCEPT !.db_id = Len(w.store) + 1]
                        ELSE pos],
              !.orders = orders_after_entry(w.orders, long, pos.position_size, pos,
                                            live, env),
              !.store = IF env.save_ok
                        THEN Append(w.store, OpenRow(Len(w.store) + 1, long, pos))
                        ELSE w.store]

\* the Buy* and SellShort arms: open locally, send the order, save the row
open_on_signal(w, side, current_price, current_time, live, env) ==
    IF w.pm.position # None
    THEN w
    ELSE IF side = "Long"
    THEN entry_opened(w, TRUE,
             open_long(w.pm, current_price, current_time,
                       FMul(current_price, Rat(95, 100))).pm,
             position_after_fill(
                 open_long(w.pm, current_price, current_time,
                           FMul(current_price, Rat(95, 100))).ret,
                 Rat(95, 100), live, entry_order(env, TRUE)),
             live, entry_order(env, TRUE))
    ELSE entry_opened(w, FALSE,
             open_short(w.pm, current_price, current_time,
                        FMul(current_price, Rat(105, 100))).pm,
             position_after_fill(
                 open_short(w.pm, current_price, current_time,
                            FMul(current_price, Rat(105, 100))).ret,
                 Rat(105, 100), live, entry_order(env, FALSE)),
             live, entry_order(env, FALSE))

\* the row update_position writes for a closed trade
ClosedRow(row, closed, final_exit_price) ==
    [row EXCEPT !.side = IF closed.trade_type = "Long" THEN "LONG" ELSE "SHORT",
                !.entry_price = closed.entry_price,
                !.size = closed.position_size,
                !.status = "CLOSED",
                !.exit_price = final_exit_price]

\* the Sell* and CoverShort arms once the manager closed the position (m is
\* the manager after the close, closed the ledger entry)
exit_closed(w, m, closed, live, env) ==
    [w EXCEPT !.pm = m,
              !.orders = IF live
                         THEN Append(w.orders,
                                  MarketOrder(closed.trade_type = "Short",
                                              closed.position_size,
                                              IF closed.trade_type = "Long"
                                              THEN ExitRetries ELSE 1, env))
                         ELSE w.orders,
              !.store = IF closed.db_id # 0 /\ env.save_ok
                        THEN [i \in DOMAIN w.store |->
                                IF w.store[i].id = closed.db_id
                                THEN ClosedRow(w.store[i], closed,
                                               IF live /\ env.order_ok /\ env.fill.some
                                               THEN env.fill.px ELSE closed.exit_price)
                                ELSE w.store[i]]
                        ELSE w.store]

\* the Sell* and CoverShort arms: close locally, send the order, update the row
close_on_signal(w, side, current_price, current_time, live, env) ==
    IF w.pm.position = None \/ w.pm.position.state # side
    THEN w
    ELSE exit_closed(w, close_position(w.pm, current_price, current_time).pm,
                     close_position(w.pm, current_price, current_time).ret, live,
                     exit_order(env, side = "Long"))

\* the match on the signal in handle_trading_signal
execute_signal(w, signal, current_price, current_time, live, env) ==
    CASE signal \in {"BuyRange", "BuyTrend"} ->
           open_on_signal(w, "Long", current_price, current_time, live, env)
      [] signal \in {"SellRange", "SellTrend"} ->
           close_on_signal(w, "Long", current_price, current_time, live, env)
      [] signal = "SellShort" ->
           open_on_signal(w, "Short", current_price, current_time, live, env)
      [] signal = "CoverShort" ->
           close_on_signal(w, "Short", current_price, current_time, live, env)
      [] OTHER -> w

\* handle_trading_signal without the read of is_running
handle_trading_signal_unpaused(w, signal, current_price, current_time, running, live, env) ==
    execute_signal(w, signal, current_price, current_time, live, env)

\* HyperliquidFeed::handle_trading_signal: is_running is loaded once, before
\* the match
handle_trading_signal(w, signal, current_price, current_time, running, live, env) ==
    IF ~running
    THEN w
    ELSE execute_signal(w, signal, current_price, current_time, live, env)

(***************************************************************************)
(* HyperliquidFeed: candle processing.  f is the feed's state: the trading *)
(* state above plus candle_buffer (buf), last_processed_candle_t (lpt) and *)
(* what the event did (kind, safety, signal).  ctx carries the wall clock, *)
(* the build, the two run flags and the outside's answers (ind, env).      *)
(***************************************************************************)
CANDLE_BUFFER_SIZE == 100
MinCandlesForStrategy == 50
HourMs == 3600000
max_daily_drawdown_pct == F(100)
max_trades_per_hour == 5
INITIAL_BANKROLL_USDC == F(10000)

Last(q) == q[Len(q)]
Front(q) == SubSeq(q, 1, Len(q) - 1)

\* execute_strategy_logic after the kill switch passed: indicators, PnL, signal
\* (u is what strategy.update returned for the closed candle)
run_strategy(f, u, closed_candle, execution_price, current_time, ctx) ==
    handle_trading_signal(
        [f EXCEPT !.strategy = u.strategy,
                  !.signal = u.signal,
                  !.pm = update_current_pnl(@, F(closed_candle.c))],
        u.signal, execution_price, current_time, ctx.running, ctx.live, ctx.env)

\* what update returned (u), with the candle's open time t noted in the history
\* variables of the strategy it started from (st)
applied(u, st, t) ==
    [u EXCEPT !.strategy.applied_t = IF t > st.applied_t THEN t ELSE st.applied_t,
              !.strategy.reapplied = st.reapplied \/ t <= st.applied_t]

\* strategy.update on a candle of the feed
update_on_candle(st, ind, closed_candle) ==
    applied(strategy_update(st, ind, F(closed_candle.h), F(closed_candle.l),
                            F(closed_candle.c)),
            st, closed_candle.t)

\* the feed after check_safety_limits returned chk
checked(f, chk) == [f EXCEPT !.pm = chk.pm, !.safety = chk.ret]

\* mutant of after_safety_check: a failed check does not stop the candle
after_safety_check_no_return(f, chk, closed_candle, execution_price, current_time, ctx) ==
    IF chk.ret = "Panic"
    THEN checked(f, chk)
    ELSE run_strategy(checked(f, chk), update_on_candle(f.strategy, ctx.ind, closed_candle),
                      closed_candle, execution_price, current_time, ctx)

\* execute_strategy_logic: `if let Err(e) = pm.check_safety_limits(..) { ..; return; }`
after_safety_check(f, chk, closed_candle, execution_price, current_time, ctx) ==
    IF chk.ret # "Ok"
    THEN checked(f, chk)
    ELSE run_strategy(checked(f, chk), update_on_candle(f.strategy, ctx.ind, closed_candle),
                      closed_candle, execution_price, current_time, ctx)

\* the feed noting the arguments execute_strategy_logic was called with
executing(f, closed_candle, execution_price) ==
    [f EXCEPT !.exec = [called |-> TRUE, candle |-> closed_candle,
                        price |-> execution_price]]

\* HyperliquidFeed::execute_strategy_logic
execute_strategy_logic(f, closed_candle, execution_price, current_time, ctx) ==
    IF Len(f.buf) >= MinCandlesForStrategy
    THEN after_safety_check(executing(f, closed_candle, execution_price),
                            check_safety_limits(f.pm, max_daily_drawdown_pct,
                                                   max_trades_per_hour, ctx.clock,
                                                   ctx.build),
                            closed_candle, execution_price, current_time, ctx)
    ELSE [executing(f, closed_candle, execution_price) EXCEPT !.safety = "warming"]

\* the intra-candle exit shared by process_candle and process_5m_candle
intra_candle_exit(f, candle, ctx) ==
    IF check_exit_condition(f.strategy, F(candle.h)) = "none"
    THEN f
    ELSE handle_trading_signal(
             [f EXCEPT !.strategy = force_exit(@),
                       !.signal = check_exit_condition(f.strategy, F(candle.h))],
             check_exit_condition(f.strategy, F(candle.h)),
             F(candle.c), candle.t, ctx.running, ctx.live, ctx.env)

\* process_5m_candle treating the 5-minute candle as a candle of the primary
\* interval
process_5m_candle_buffering(f, candle, ctx) ==
    [intra_candle_exit(f, candle, ctx) EXCEPT !.buf = Append(@, candle),
                                              !.lpt = candle.t]

\* HyperliquidFeed::process_5m_candle
process_5m_candle(f, candle, ctx) ==
    IF f.strategy.position_type = "None"
    THEN f
    ELSE intra_candle_exit(f, candle, ctx)

\* push_back followed by the CANDLE_BUFFER_SIZE cap
push_capped(buf, candle) ==
    LET b == Append(buf, candle)
    IN  IF Len(b) > CANDLE_BUFFER_SIZE THEN Tail(b) ELSE b

\* the forced close's buffer update: the fetched candle replaces the back
\* candle when both have the same open time, and is pushed otherwise
replace_or_push(buf, candle) ==
    IF buf # <<>> /\ candle.t = Last(buf).t
    THEN Append(Front(buf), candle)
    ELSE Append(buf, candle)

\* after_forced_close leaving last_processed_candle_t as it was
after_forced_close_unmarked(f2, candle) == f2

\* process_candle after execute_strategy_logic returned f2 for a forced close
\* (a panic in the safety check ends the process before anything else)
after_forced_close(f2, candle) ==
    IF f2.safety = "Panic" THEN f2 ELSE [f2 EXCEPT !.lpt = candle.t]

\* process_candle after the closed candle was handled (f2) on a websocket
\* close: the new candle is appended
after_ws_close(f2, candle) ==
    IF f2.safety = "Panic"
    THEN f2
    ELSE [f2 EXCEPT !.lpt = IF Last(f2.buf).t > @ THEN Last(f2.buf).t ELSE @,
                    !.buf = push_capped(@, candle)]

\* mutant of execution_price_on_close: the new candle's close is used
execution_price_own_close(candle) == F(candle.c)

\* process_candle, a close seen on the websocket: "Use Open of new candle as
\* execution price"
execution_price_on_close(candle) == F(candle.o)

\* HyperliquidFeed::process_candle
process_candle(f, candle, force_close, ctx) ==
    IF force_close
    THEN IF candle.t > f.lpt
         THEN after_forced_close(
                  execute_strategy_logic(
                      [f EXCEPT !.buf = replace_or_push(@, candle), !.kind = "force_close"],
                      candle, F(candle.c), candle.t, ctx),
                  candle)
         ELSE [f EXCEPT !.buf = replace_or_push(@, candle), !.kind = "force_seen"]
    ELSE IF f.buf = <<>>
    THEN [f EXCEPT !.buf = <<candle>>, !.kind = "first"]
    ELSE IF candle.t = Last(f.buf).t
    THEN intra_candle_exit([f EXCEPT !.buf = Append(Front(@), candle), !.kind = "update"],
                           candle, ctx)
    ELSE IF candle.t > Last(f.buf).t
    THEN after_ws_close(
             IF Last(f.buf).t > f.lpt
             THEN execute_strategy_logic([f EXCEPT !.kind = "close"], Last(f.buf),
                                         execution_price_on_close(candle), candle.t, ctx)
             ELSE [f EXCEPT !.kind = "close_seen"],
             candle)
    ELSE [f EXCEPT !.kind = "stale"]

\* the warmup loop's effect on the strategy: the fetched candles lo..hi are fed
\* to update in order and the signals are discarded.  fed is a sequence of
\* [candle, ind] pairs.  (Feeding lo..hi is feeding lo..mid, then mid+1..hi;
\* the singleton set binds the strategy after lo..mid to its value.)
RECURSIVE warmup_strategy(_, _, _, _)
warmup_strategy(st, fed, lo, hi) ==
    IF lo > hi
    THEN st
    ELSE IF lo = hi
    THEN update_on_candle(st, fed[lo].ind, fed[lo].candle).strategy
    ELSE CHOOSE r \in {warmup_strategy(half, fed, (lo + hi) \div 2 + 1, hi) :
                         half \in {warmup_strategy(st, fed, lo, (lo + hi) \div 2)}} : TRUE

\* the warmup loop's effect on the buffer: push_back then pop_front while over
\* CANDLE_BUFFER_SIZE, for each fetched candle in turn, leaves the last
\* CANDLE_BUFFER_SIZE candles of the old buffer followed by the fetched ones
warmup_buffer(buf, fed) ==
    LET all == buf \o [i \in 1..Len(fed) |-> fed[i].candle]
    IN  IF Len(all) > CANDLE_BUFFER_SIZE
        THEN SubSeq(all, Len(all) - CANDLE_BUFFER_SIZE + 1, Len(all))
        ELSE all

\* HyperliquidFeed::warmup
warmup(buf, st, lpt, fed) ==
    LET b == warmup_buffer(buf, fed)
        n == Len(b)
    IN  [buf |-> b,
         strategy |-> warmup_strategy(st, fed, 1, Len(fed)),
         lpt |-> IF n >= 2 THEN b[n - 1].t
                 ELSE IF n = 1 THEN b[1].t ELSE lpt]

(***************************************************************************)
(* Specification SpecLive: run_live_trading.  Startup (store init, sync of *)
(* the exchange position, warmup, fetched bankroll), then the feed loop:   *)
(* websocket candles, 5-minute candles, the hour watchdog, reconnects and  *)
(* the Telegram start / stop buttons.                                      *)
(***************************************************************************)
MaxEvents == 2
MaxSessionEvents == 3

\* candle shapes (open, high, low, close) around Bollinger bands 90 / 100 / 105
\* in whole dollars; Flat fills the warmup history
Flat == [o |-> 100, h |-> 100, l |-> 100, c |-> 100]
Dip == [o |-> 100, h |-> 100, l |-> 80, c |-> 80]
Rally == [o |-> 100, h |-> 110, l |-> 100, c |-> 110]
Shapes == {Dip, Rally}

Candle(t, shape) ==
    [t |-> t, o |-> shape.o, h |-> shape.h, l |-> shape.l, c |-> shape.c]

\* indicator outputs for a candle
NotReady == [bb |-> NoBands,
             st |-> [some |-> FALSE, up |-> FALSE],
             adx |-> [some |-> FALSE, value |-> Zero]]
Bands == [some |-> TRUE, lower |-> F(90), middle |-> F(100), upper |-> F(105)]
Ready(adx, up) == [bb |-> Bands,
                   st |-> [some |-> TRUE, up |-> up],
                   adx |-> [some |-> TRUE, value |-> adx]]
Inds == {NotReady, Ready(F(5), FALSE), Ready(F(5), TRUE),
         Ready(F(25), FALSE), Ready(F(25), TRUE)}

\* the outside's answers to a signal execution
NoFill == [some |-> FALSE, px |-> Zero, fee |-> Zero]
Fill == [some |-> TRUE, px |-> F(101), fee |-> Rat(1, 20)]
\* refusals is the number of attempts the exchange refuses before it accepts
\* the market order: none, the first only, or more than any caller makes
DryEnvs == {[refusals |-> 0, fill |-> NoFill, save_ok |-> ok] : ok \in BOOLEAN}
LiveEnvs == {[refusals |-> 0, fill |-> Fill, save_ok |-> TRUE],
             [refusals |-> 0, fill |-> NoFill, save_ok |-> TRUE],
             [refusals |-> 1, fill |-> NoFill, save_ok |-> TRUE],
             [refusals |-> ExitRetries, fill |-> NoFill, save_ok |-> TRUE],
             [refusals |-> ExitRetries, fill |-> NoFill, save_ok |-> FALSE],
             [refusals |-> 0, fill |-> NoFill, save_ok |-> FALSE]}
Calm == [refusals |-> 0, fill |-> NoFill, save_ok |-> TRUE]
\* the answers that can matter to the execution of a signal: none when the
\* signal executes nothing
Envs(signal) ==
    IF signal \in {"none", "Hold", "UpgradeToTrend"} \/ ~is_running
    THEN {Calm}
    ELSE IF is_live THEN LiveEnvs ELSE DryEnvs

\* what startup finds: the store's rows, the exchange's position, the number
\* of candles the warmup fetch returns, the account value
StoreRow(side) == [id |-> 1, side |-> side, entry_price |-> F(100), size |-> Rat(1, 10),
                   status |-> "OPEN", exit_price |-> Zero, created_at |-> 0]
InitialStores == {<<>>, <<StoreRow("LONG")>>}
NoExchangePosition == [szi |-> Zero, entry_px |-> Zero]
ExchangePositions == {NoExchangePosition, [szi |-> Rat(-1, 10), entry_px |-> F(100)]}
WarmupCounts == {0, 100}
\* the indicator outputs of the last warmup candle
WarmupInds == {NotReady, Ready(F(5), FALSE)}
LiveBankrolls == {F(-1), INITIAL_BANKROLL_USDC}

\* the first row fetch_open_positions returns
RECURSIVE first_open_row(_)
first_open_row(rows) ==
    IF rows = <<>> THEN NoRow
    ELSE IF Head(rows).status = "OPEN" THEN Head(rows)
    ELSE first_open_row(Tail(rows))

\* the hour (in ms) the wall clock is in
current_hour(clock) == ((clock * 1000) \div HourMs) * HourMs

\* the candles the warmup fetch returns, the last one being the forming candle
WarmupFetch(n, clock, shape, ind) ==
    [i \in 1..n |->
        [candle |-> Candle(current_hour(clock) - (n - i) * HourMs,
                           IF i = n THEN shape ELSE Flat),
         ind |-> IF i = n THEN ind ELSE NotReady]]

InitLive ==
    /\ pm = PositionManager_new(INITIAL_BANKROLL_USDC)
    /\ call = NoCall(PositionManager_new(INITIAL_BANKROLL_USDC))
    /\ origin = [NoOrigin EXCEPT !.session_start = INITIAL_BANKROLL_USDC]
    /\ now = StartClock
    /\ build \in {"debug", "release"}
    /\ panicked = FALSE
    /\ ops = 0
    /\ phase = "boot"
    /\ is_live \in BOOLEAN
    /\ is_running = TRUE
    /\ candle_buffer = <<>>
    /\ last_processed_candle_t = 0
    /\ strategy = AdaptiveStrategy_new
    /\ last_checked_hour = 0
    /\ orders = <<>>
    /\ store \in InitialStores
    /\ ev = NoEvent(PositionManager_new(INITIAL_BANKROLL_USDC))
    /\ book = NoBook
    /\ detector = NoDetector
    /\ indicators = NoIndicators
    /\ history = NoFetch

\* the feed's state as process_candle sees it
Feed == [pm |-> pm, strategy |-> strategy, orders |-> orders, store |-> store,
         buf |-> candle_buffer, lpt |-> last_processed_candle_t,
         kind |-> "none", safety |-> "none", signal |-> "none", exec |-> NoExec]

Ctx(ind, env, clock) == [clock |-> clock, build |-> build, running |-> is_running,
                         live |-> is_live, ind |-> ind, env |-> env]

\* what the event recorded in ev started from, and whether the kill switch
\* failed on an earlier event of the run
Event(kind, t, safety, signal) ==
    [kind |-> kind, t |-> t, safety |-> safety, signal |-> signal, pre |-> pm,
     pre_position_type |-> strategy.position_type, pre_orders |-> Len(orders),
     pre_store |-> store, pre_buffer |-> Len(candle_buffer),
     failed_before |-> ev.failed_before \/ ev.safety \in {"ErrDrawdown", "ErrFrequency"},
     pre_back_t |-> IF candle_buffer = <<>> THEN 0 ELSE Last(candle_buffer).t,
     exec |-> NoExec]

\* the feed's state after a handler ran
Commit(f, t) ==
    /\ pm' = f.pm
    /\ strategy' = f.strategy
    /\ orders' = f.orders
    /\ store' = f.store
    /\ candle_buffer' = f.buf
    /\ last_processed_candle_t' = f.lpt
    /\ panicked' = (f.safety = "Panic")
    /\ ev' = [Event(f.kind, t, f.safety, f.signal) EXCEPT !.exec = f.exec]

\* the number of feed events explored: MaxEvents from boot, MaxSessionEvents
\* from a warmed-up feed
EventBudget == IF phase = "session" THEN MaxSessionEvents ELSE MaxEvents

LiveStep ==
    /\ phase \in {"live", "session"}
    /\ ~panicked
    /\ ops < EventBudget
    /\ ops' = ops + 1
    /\ UNCHANGED <<call, origin, build, phase, is_live, book, detector,
                   indicators, history>>

\* the watchdog's hour tracker after a tick at this hour
tracked_hour(tracker, hour) ==
    IF tracker = 0 THEN hour
    ELSE IF hour > tracker THEN hour ELSE tracker

\* run_live_trading up to the first websocket session: PositionManager::init, the
\* sync of the exchange's position (live mode only), warmup, the fetched
\* bankroll written into the manager, and the session's first watchdog tick
\* (a tokio interval's first tick completes at once; the tracker starts at 0)
Startup ==
    /\ phase = "boot"
    /\ phase' = "live"
    /\ \E b \in LiveBankrolls, n \in WarmupCounts, shape \in Shapes, ind \in WarmupInds,
          x \in IF is_live THEN ExchangePositions ELSE {NoExchangePosition} :
         LET pm1 == init(pm, first_open_row(store))
             pm2 == IF x = NoExchangePosition
                    THEN pm1
                    ELSE sync_position(pm1, x.szi, x.entry_px,
                                       IF FGt(x.szi, Zero) THEN "Long" ELSE "Short", now)
             wu == warmup(candle_buffer, strategy, last_processed_candle_t,
                          WarmupFetch(n, now, shape, ind))
         IN  /\ pm' = [pm2 EXCEPT !.bankroll.total_balance = b,
                                  !.bankroll.available_balance = b]
             /\ candle_buffer' = wu.buf
             /\ strategy' = wu.strategy
             /\ last_processed_candle_t' = wu.lpt
    /\ last_checked_hour' = tracked_hour(0, current_hour(now))
    /\ ev' = Event("startup", 0, "none", "none")
    /\ UNCHANGED <<call, origin, now, build, panicked, ops, is_live, is_running,
                   orders, store, book, detector,
                   indicators, history>>

\* the signal the strategy gives for a closed candle with these indicator values
ClosedCandleSignal(closed_candle, ind) ==
    strategy_update(strategy, ind, F(closed_candle.h), F(closed_candle.l),
                    F(closed_candle.c)).signal

\* the open timestamps a primary-interval websocket message can carry: the
\* forming candle's, the one before it (a resend) and the next hour's
CandleTimes ==
    IF candle_buffer = <<>>
    THEN {current_hour(now)}
    ELSE {Last(candle_buffer).t - HourMs, Last(candle_buffer).t,
          Last(candle_buffer).t + HourMs}

\* run_websocket_session, a "candle" message of the primary interval.  A candle
\* of a new hour cannot arrive before that hour has begun.
WsCandle ==
    /\ LiveStep
    /\ \E t \in CandleTimes, shape \in Shapes :
         LET clock == IF t \div 1000 > now THEN t \div 1000 ELSE now
             closes == candle_buffer # <<>> /\ t > Last(candle_buffer).t
         IN  IF t < last_processed_candle_t
             THEN /\ ev' = Event("dropped", t, "none", "none")
                  /\ UNCHANGED <<pm, strategy, orders, store, candle_buffer,
                                 last_processed_candle_t, panicked, now>>
             ELSE /\ now' = clock
                  /\ \E ind \in IF closes THEN Inds ELSE {NotReady} :
                     \E env \in Envs(IF closes
                                     THEN ClosedCandleSignal(Last(candle_buffer), ind)
                                     ELSE check_exit_condition(strategy, F(shape.h))) :
                       Commit(process_candle(Feed, Candle(t, shape), FALSE,
                                             Ctx(ind, env, clock)), t)
    /\ UNCHANGED <<is_running, last_checked_hour>>

\* run_websocket_session, a "candle" message of the 5-minute interval
Ws5mCandle ==
    /\ LiveStep
    /\ \E shape \in Shapes :
       \E env \in Envs(check_exit_condition(strategy, F(shape.h))) :
         Commit([process_5m_candle(Feed, Candle(now * 1000, shape),
                                   Ctx(NotReady, env, now)) EXCEPT !.kind = "5m"],
                now * 1000)
    /\ UNCHANGED <<now, is_running, last_checked_hour>>

\* run_websocket_session, a tick of the 10-second watchdog that finds the hour
\* tracker behind the clock (any other tick changes nothing).  The REST fetch
\* of [last_checked_hour, current_hour] fails, or its first candle is the one
\* that opened at last_checked_hour.
WatchdogTick ==
    /\ LiveStep
    /\ last_checked_hour # 0
    /\ current_hour(now) > last_checked_hour
    /\ \/ \E shape \in Shapes, ind \in Inds :
          \E env \in Envs(ClosedCandleSignal(shape, ind)) :
            Commit(process_candle(Feed, Candle(last_checked_hour, shape), TRUE,
                                  Ctx(ind, env, now)), last_checked_hour)
       \/ /\ ev' = Event("fetch_failed", 0, "none", "none")
          /\ UNCHANGED <<pm, strategy, orders, store, candle_buffer,
                         last_processed_candle_t, panicked>>
    /\ last_checked_hour' = tracked_hour(last_checked_hour, current_hour(now))
    /\ UNCHANGED <<now, is_running>>

\* the wall clock advances
ClockAdvance ==
    /\ LiveStep
    /\ now' = now + TickSecs
    /\ ev' = Event("clock", 0, "none", "none")
    /\ UNCHANGED <<pm, strategy, orders, store, candle_buffer,
                   last_processed_candle_t, panicked, is_running, last_checked_hour>>

\* connect_and_trade: the websocket session ended and a new one starts, whose
\* first watchdog tick sets the fresh hour tracker to the current hour
Reconnect ==
    /\ LiveStep
    /\ last_checked_hour' = tracked_hour(0, current_hour(now))
    /\ ev' = Event("reconnect", 0, "none", "none")
    /\ UNCHANGED <<pm, strategy, orders, store, candle_buffer,
                   last_processed_candle_t, panicked, is_running, now>>

\* TelegramBot::run_listener, the "start" button while paused
TelegramStart ==
    /\ LiveStep
    /\ ~is_running
    /\ is_running' = TRUE
    /\ ev' = Event("telegram_start", 0, "none", "none")
    /\ UNCHANGED <<pm, strategy, orders, store, candle_buffer,
                   last_processed_candle_t, panicked, last_checked_hour, now>>

\* TelegramStop closing the manager's position as well
TelegramStopFlat ==
    /\ LiveStep
    /\ is_running
    /\ is_running' = FALSE
    /\ pm' = [pm EXCEPT !.position = None]
    /\ ev' = Event("telegram_stop", 0, "none", "none")
    /\ UNCHANGED <<strategy, orders, store, candle_buffer,
                   last_processed_candle_t, panicked, last_checked_hour, now>>

\* TelegramBot::run_listener, the "stop" button while running
TelegramStop ==
    /\ LiveStep
    /\ is_running
    /\ is_running' = FALSE
    /\ ev' = Event("telegram_stop", 0, "none", "none")
    /\ UNCHANGED <<pm, strategy, orders, store, candle_buffer,
                   last_processed_candle_t, panicked, last_checked_hour, now>>

\* TelegramBot::run_listener, the "positions" button: the manager is locked and
\* its bankroll and position are read for the reply
TelegramPositions ==
    /\ LiveStep
    /\ ev' = Event("telegram_positions", 0, "none", "none")
    /\ UNCHANGED <<pm, strategy, orders, store, candle_buffer, is_running,
                   last_processed_candle_t, panicked, last_checked_hour, now>>

NextLive ==
    \/ Startup
    \/ WsCandle
    \/ Ws5mCandle
    \/ WatchdogTick
    \/ ClockAdvance
    \/ Reconnect
    \/ TelegramStart
    \/ TelegramStop
    \/ TelegramPositions

SpecLive == InitLive /\ [][NextLive]_vars

(***************************************************************************)
(* Specification SpecSession: the feed loop of a dry run, release build,   *)
(* entered from a state Startup produces: the store held an open long, the *)
(* warmup fetched a full history whose last candle closed under the lower  *)
(* band (the strategy is in LongRange), and the account value was fetched. *)
(***************************************************************************)
SessionWarmup ==
    warmup(<<>>, AdaptiveStrategy_new, 0,
           WarmupFetch(CANDLE_BUFFER_SIZE, StartClock, Dip, Ready(F(5), FALSE)))

InitSession ==
    /\ \E b \in LiveBankrolls :
         pm = [init(PositionManager_new(INITIAL_BANKROLL_USDC), StoreRow("LONG"))
                 EXCEPT !.bankroll.total_balance = b,
                        !.bankroll.available_balance = b]
    /\ call = NoCall(PositionManager_new(INITIAL_BANKROLL_USDC))
    /\ origin = [NoOrigin EXCEPT !.session_start = INITIAL_BANKROLL_USDC]
    /\ now = StartClock
    /\ build = "release"
    /\ panicked = FALSE
    /\ ops = 0
    /\ phase = "session"
    /\ is_live = FALSE
    /\ is_running = TRUE
    /\ candle_buffer = SessionWarmup.buf
    /\ last_processed_candle_t = SessionWarmup.lpt
    /\ strategy = SessionWarmup.strategy
    /\ last_checked_hour = tracked_hour(0, current_hour(StartClock))
    /\ orders = <<>>
    /\ store = <<StoreRow("LONG")>>
    /\ ev = NoEvent(PositionManager_new(INITIAL_BANKROLL_USDC))
    /\ book = NoBook
    /\ detector = NoDetector
    /\ indicators = NoIndicators
    /\ history = NoFetch

NextSession ==
    \/ WsCandle
    \/ Ws5mCandle
    \/ WatchdogTick
    \/ ClockAdvance
    \/ Reconnect
    \/ TelegramStart
    \/ TelegramStop
    \/ TelegramPositions

SpecSession == InitSession /\ [][NextSession]_vars

(***************************************************************************)
(* Claims about the live loop (specification SpecLive)                     *)
(***************************************************************************)
\* the last event closed a candle and ran the kill switch on it
ClosedCandleChecked ==
    /\ ev.kind \in {"close", "force_close"}
    /\ ev.safety \in {"Ok", "ErrDrawdown", "ErrFrequency"}

SafetyCheckFailed ==
    /\ ev.kind \in {"close", "force_close"}
    /\ ev.safety \in {"ErrDrawdown", "ErrFrequency"}

\* the ledger entries whose exit lies inside the last 3600 seconds of the wall
\* clock (exit times are candle times in milliseconds)
RecentExits ==
    {i \in DOMAIN pm.closed_trades :
        now - (pm.closed_trades[i].exit_time \div 1000) <= OneHourSecs}

\* C8 (as claimed): at a closed candle of the live loop, max_trades_per_hour
\* exits inside the last 3600 seconds make check_safety_limits fail, and no exit
\* timestamp that is not older than 3600 seconds has been purged.
C8_FrequencyWindowEnforced ==
    (ClosedCandleChecked /\ ev.safety # "ErrDrawdown")
        => /\ Cardinality(RecentExits) >= max_trades_per_hour
                => ev.safety = "ErrFrequency"
           /\ \A i \in RecentExits :
                \E j \in DOMAIN pm.trade_timestamps :
                    pm.trade_timestamps[j] = pm.closed_trades[i].exit_time

\* C10: when check_safety_limits fails for a closed candle, the manager's
\* position, bankroll and ledger are as they were before the candle and no
\* order has been sent; a position that was open stays open.
C10_FailedCheckLeavesTradingStateAlone ==
    SafetyCheckFailed
        => /\ pm.position = ev.pre.position
           /\ pm.bankroll = ev.pre.bankroll
           /\ pm.closed_trades = ev.pre.closed_trades
           /\ Len(orders) = ev.pre_orders

\* C10 witness: the check failed on a closed candle in live mode, with the bot
\* running, while a Long position was open and the strategy was in LongRange
\* on a candle whose high reaches the middle band (a SellRange candle).
C10_Witness ==
    /\ SafetyCheckFailed
    /\ is_live
    /\ is_running
    /\ ev.pre.position # None
    /\ ev.pre_position_type = "LongRange"
    /\ pm.position # None

(***************************************************************************)
(* Claims about a session of the feed loop (specification SpecSession)     *)
(***************************************************************************)
\* the last event closed a candle and a position was opened on it
EntryOnClosedCandle ==
    /\ ev.kind \in {"close", "force_close"}
    /\ ev.pre.position = None
    /\ pm.position # None

C18_NoCandleAppliedTwice == ~strategy.reapplied

\* the last event was a websocket message of the primary interval whose candle
\* is not newer than the last candle processed as closed (such a message leaves
\* last_processed_candle_t as it found it)
ReplayedMessage ==
    /\ ev.kind \in {"dropped", "stale", "update", "close", "close_seen", "first"}
    /\ ev.t <= last_processed_candle_t

BeforeBack == candle_buffer[Len(candle_buffer) - 1]

\* C20: on a websocket close the strategy is executed on the candle that was at
\* the back of the buffer, with the new candle's open as execution price, and the
\* new candle is appended behind it; on a forced close it is executed on the
\* fetched candle with that candle's own close as execution price.  (In a dry
\* run an entry is opened at the execution price; a debug build that aborts in
\* the kill switch's subtraction appends nothing.)
C20_ExecutionCandleAndPrice ==
    /\ (ev.kind = "close" /\ ev.safety # "Panic")
         => /\ ev.exec.called
            /\ ev.exec.candle.t = ev.pre_back_t
            /\ ev.exec.candle = BeforeBack
            /\ Last(candle_buffer).t = ev.t
            /\ ev.exec.price = F(Last(candle_buffer).o)
    /\ ev.kind = "force_close"
         => /\ ev.exec.called
            /\ ev.exec.candle = Last(candle_buffer)
            /\ ev.exec.candle.t = ev.t
            /\ ev.exec.price = F(ev.exec.candle.c)
    /\ (EntryOnClosedCandle /\ ~is_live) => pm.position.entry_price = ev.exec.price

C20_Witness ==
    /\ ev.kind = "close"
    /\ EntryOnClosedCandle
    /\ ev.exec.candle.c # Last(candle_buffer).o
    /\ pm.position.entry_price = F(Last(candle_buffer).o)

\* a step of the feed that handled a 5-minute candle
FiveMinuteStep == ops' = ops + 1 /\ ev'.kind = "5m"

\* C21: a 5-minute candle leaves the indicators (no strategy update is applied,
\* the bands kept from the last update stay), the primary candle buffer and
\* last_processed_candle_t alone; it changes nothing when the strategy holds no
\* position, and whatever it changes, it is the intra-candle exit of a
\* LongRange position: force_exit, then SellRange handed to
\* handle_trading_signal, which closes the manager's long while the feed runs.
C21_FiveMinuteCandleOnlyExits ==
    [][FiveMinuteStep
         => /\ candle_buffer' = candle_buffer
            /\ last_processed_candle_t' = last_processed_candle_t
            /\ strategy'.last_bollinger = strategy.last_bollinger
            /\ strategy'.applied_t = strategy.applied_t
            /\ strategy'.reapplied = strategy.reapplied
            /\ ~ev'.exec.called
            /\ strategy.position_type = "None"
                 => /\ pm' = pm /\ strategy' = strategy
                    /\ orders' = orders /\ store' = store
            /\ (pm' # pm \/ strategy' # strategy \/ orders' # orders \/ store' # store)
                 => /\ strategy.position_type = "LongRange"
                    /\ strategy'.position_type = "None"
                    /\ ev'.signal = "SellRange"
                    /\ (is_running /\ pm.position # None /\ pm.position.state = "Long")
                         => pm'.position = None
                    /\ pm'.position \in {None, pm.position}]_vars

C21_Witness ==
    /\ ev.kind = "5m"
    /\ ev.pre_position_type = "LongRange"
    /\ ev.signal = "SellRange"
    /\ strategy.position_type = "None"
    /\ ev.pre.position # None
    /\ pm.position = None
    /\ candle_buffer # <<>>

\* the last event is a candle on which the strategy or the intra-candle probe
\* produced a signal, handed to handle_trading_signal
SignalHandled ==
    /\ ev.kind \in {"close", "force_close", "update", "5m"}
    /\ ev.signal \notin {"none", "Hold"}

\* the position apart from its mark-to-market fields, which
\* execute_strategy_logic refreshes before the signal is handled
Unmarked(pos) ==
    IF pos = None THEN None
    ELSE [pos EXCEPT !.unrealized_pnl = Zero, !.unrealized_pnl_pct = Zero]

\* C22: a signal handled while the run/pause flag is false executes nothing:
\* the position is neither opened nor closed, bankroll and ledger are as
\* before, no order is sent and no row of the store is written.
C22_PausedFeedExecutesNothing ==
    (SignalHandled /\ ~is_running)
        => /\ Unmarked(pm.position) = Unmarked(ev.pre.position)
           /\ pm.bankroll = ev.pre.bankroll
           /\ pm.closed_trades = ev.pre.closed_trades
           /\ Len(orders) = ev.pre_orders
           /\ store = ev.pre_store

C22_Witness ==
    /\ SignalHandled
    /\ ~is_running
    /\ ev.kind = "close"
    /\ ev.signal \in {"BuyRange", "BuyTrend", "SellShort"}
    /\ ev.safety = "Ok"
    /\ pm.position = None
    /\ strategy.position_type # "None"
    /\ is_live

\* a step of the chat listener task
TelegramStep ==
    /\ ops' = ops + 1
    /\ ev'.kind \in {"telegram_start", "telegram_stop", "telegram_positions"}

\* C23: whatever the feed task did before and does after, a step of the chat
\* listener leaves the position manager (position, bankroll, ledger, trade
\* timestamps) and the rest of the trading state as they are; of the shared
\* state it writes the run/pause flag only, and only on start and stop.  So
\* every change of the trading state is a step of the feed task.
C23_ListenerOnlyWritesFlag ==
    [][TelegramStep
         => /\ pm' = pm
            /\ UNCHANGED <<strategy, orders, store, candle_buffer,
                           last_processed_candle_t>>
            /\ ev'.kind = "telegram_positions" => is_running' = is_running
            /\ ev'.kind = "telegram_start" => is_running'
            /\ ev'.kind = "telegram_stop" => ~is_running']_vars

C23_Witness ==
    /\ ev.kind = "telegram_positions"
    /\ ~is_running
    /\ pm.position # None
    /\ pm.position.unrealized_pnl # Zero

\* the last event was an entry, in live mode, whose market order was refused
EntryOrderFailed ==
    /\ is_live
    /\ ev.signal \in {"BuyRange", "BuyTrend", "SellShort"}
    /\ ev.pre.position = None
    /\ Len(orders) = ev.pre_orders + 1
    /\ Last(orders).kind = "market"
    /\ ~Last(orders).ok

\* C24: when the entry order is refused after the manager opened the position,
\* nothing is rolled back: the position stays open in the manager with its
\* collateral committed, and it is handed to the store as after an accepted
\* order, which inserts it as an OPEN row whose id the position keeps (a store
\* that refuses the insert leaves no row and the position without id).
C24_FailedEntryOrderKeepsPosition ==
    EntryOrderFailed
        => /\ pm.position # None
           /\ pm.position.state = (IF ev.signal = "SellShort" THEN "Short" ELSE "Long")
           /\ pm.bankroll.available_balance
                = FSub(ev.pre.bankroll.available_balance, pm.position.position_value)
           /\ \/ /\ store = Append(ev.pre_store,
                                   OpenRow(Len(ev.pre_store) + 1,
                                           ev.signal # "SellShort", pm.position))
                 /\ Last(store).status = "OPEN"
                 /\ pm.position.db_id = Last(store).id
              \/ /\ store = ev.pre_store
                 /\ pm.position.db_id = 0

C24_Witness ==
    /\ EntryOrderFailed
    /\ pm.position # None
    /\ store # ev.pre_store
    /\ Last(store).status = "OPEN"
    /\ pm.position.db_id = Last(store).id

\* C25: every market-equivalent order of a signal execution that the exchange
\* refused was tried again: it waited 2 seconds after the first refusal, and it
\* was given up only after more than one attempt.
C25_RefusedMarketOrdersAreRetried ==
    \A i \in DOMAIN orders :
        (orders[i].kind = "market" /\ ~orders[i].ok)
            => orders[i].attempts > 1 /\ orders[i].waited >= 2

\* C26: the position init rebuilds from an OPEN row of the store has its
\* stop-loss 5% from the entry price: entry_price * 0.95 for a LONG row,
\* entry_price * 1.05 for a SHORT row, with stop_loss_pct = 5.
C26_RestoredStopLossFivePercent ==
    (call.op = "init" /\ pm.position # None)
        => /\ pm.position.stop_loss_pct = F(5)
           /\ pm.position.stop_loss_price
                = FMul(pm.position.entry_price,
                       IF pm.position.state = "Long" THEN Rat(95, 100)
                       ELSE Rat(105, 100))

\* a step of the feed that handed a closed candle to execute_strategy_logic
ExecutionStep == ops' = ops + 1 /\ ev'.exec.called

\* C35: execute_strategy_logic is called only for a candle that opened after
\* last_processed_candle_t, which then becomes that candle's open time (unless
\* the process aborted), and last_processed_candle_t never decreases: a candle
\* closed by a websocket message, by the watchdog or by both, in either order,
\* is executed at most once.
C35_ClosedCandleExecutedOnce ==
    [][/\ last_processed_candle_t' >= last_processed_candle_t
       /\ ExecutionStep
            => /\ ev'.kind \in {"close", "force_close"}
               /\ ev'.exec.candle.t > last_processed_candle_t
               /\ ~panicked' => last_processed_candle_t' = ev'.exec.candle.t]_vars

C35_Witness ==
    /\ ev.kind = "force_seen"
    /\ ~ev.exec.called
    /\ ev.t = last_processed_candle_t
    /\ strategy.applied_t = ev.t

\* C36: after every candle the live loop processed, the strategy's position
\* state and the position manager agree: the strategy is in None exactly when
\* the manager holds no position.
C36_StrategyAndManagerAgree ==
    (ev.kind \in {"first", "update", "close", "close_seen", "force_close",
                  "force_seen", "stale", "5m"} /\ ~panicked)
        => (strategy.position_type = "None" <=> pm.position = None)

\* the last event was an exit, in live mode, whose market order was refused on
\* every attempt
ExitOrderFailed ==
    /\ is_live
    /\ ev.signal \in {"SellRange", "SellTrend", "CoverShort"}
    /\ ev.pre.position # None
    /\ Len(orders) = ev.pre_orders + 1
    /\ Last(orders).kind = "market"
    /\ ~Last(orders).ok

\* C37: when the exit order failed, the position is not recorded as closed: it
\* is still open in the manager, the ledger has no new entry and no row of
\* the store was set to CLOSED.
C37_FailedExitOrderKeepsPosition ==
    ExitOrderFailed
        => /\ pm.position # None
           /\ pm.position.state = ev.pre.position.state
           /\ pm.closed_trades = ev.pre.closed_trades
           /\ \A i \in DOMAIN store :
                store[i].status = "CLOSED" => ev.pre_store[i].status = "CLOSED"

\* C38: a closed candle handed to execute_strategy_logic while
\* check_safety_limits fails is still fed to the indicators (the strategy's
\* update is applied to it) before last_processed_candle_t moves to it.
C38_BlockedCandleStillApplied ==
    (ev.exec.called /\ ev.safety \in {"ErrDrawdown", "ErrFrequency"}
       /\ last_processed_candle_t = ev.exec.candle.t)
        => strategy.applied_t = ev.exec.candle.t

\* C39: the candle buffer holds at most CANDLE_BUFFER_SIZE candles and their
\* open times increase strictly from front to back.
C39_BufferCappedAndOrdered ==
    /\ Len(candle_buffer) <= CANDLE_BUFFER_SIZE
    /\ \A i \in 1 .. (Len(candle_buffer) - 1) :
         candle_buffer[i].t < candle_buffer[i + 1].t

(***************************************************************************)
(* Specification SpecStrategy: the AdaptiveStrategy driven alone.  A new   *)
(* strategy receives update, check_exit_condition and (after a probe that   *)
(* returned a signal, as its callers do) force_exit, with candles and       *)
(* indicator outputs drawn from small sets.  call records the last call.    *)
(***************************************************************************)
MaxStrategyCalls == 3

\* candles (high, low, close) in whole dollars, high >= close >= low, placed
\* around the bands 90 / 100 / 105 and 70 / 85 / 95
StrategyCandles ==
    {[h |-> 110, l |-> 100, c |-> 110],   \* closes above the upper band
     [h |-> 105, l |-> 100, c |-> 105],   \* closes on the upper band
     [h |-> 100, l |-> 95, c |-> 95],     \* touches the middle band, closes under it
     [h |-> 99, l |-> 90, c |-> 90],      \* closes on the lower band
     [h |-> 99, l |-> 88, c |-> 88],      \* closes under the lower band
     [h |-> 100, l |-> 80, c |-> 80],     \* touches the middle band, closes far under
     [h |-> 95, l |-> 80, c |-> 80]}      \* closes more than 5 % under the lower band

LowBands == [some |-> TRUE, lower |-> F(70), middle |-> F(85), upper |-> F(95)]
AdxValues == {F(5), adx_threshold, F(25)}

\* every indicator has returned a value
EmittedInds ==
    {[bb |-> b, st |-> [some |-> TRUE, up |-> up], adx |-> [some |-> TRUE, value |-> a]] :
        b \in {Bands, LowBands}, up \in BOOLEAN, a \in AdxValues}

\* at least one indicator is still warming up (the values of the others are
\* those of a trending market whose SuperTrend is down)
WarmingInds ==
    {[bb |-> IF b THEN Bands ELSE NoBands,
      st |-> [some |-> t, up |-> FALSE],
      adx |-> [some |-> a, value |-> IF a THEN F(25) ELSE Zero]] :
        b \in BOOLEAN, t \in BOOLEAN, a \in BOOLEAN} \ EmittedInds

StrategyInds == EmittedInds \cup WarmingInds

NoStrategyCall(st) ==
    [op |-> "new", pre |-> st, ind |-> NotReady, high |-> Zero, low |-> Zero,
     close |-> Zero, signal |-> "none",
     prev |-> [op |-> "new", from |-> "None", signal |-> "none", bb |-> NoBands]]

\* the record of a call: what it was given, what it returned, the strategy it
\* started from, and the call before it
StrategyCall(op, ind, candle, signal) ==
    [op |-> op, pre |-> strategy, ind |-> ind, high |-> F(candle.h), low |-> F(candle.l),
     close |-> F(candle.c), signal |-> signal,
     prev |-> [op |-> call.op, from |-> call.pre.position_type, signal |-> call.signal,
               bb |-> call.ind.bb]]

InitStrategy ==
    /\ pm = PositionManager_new(Zero)
    /\ call = NoStrategyCall(AdaptiveStrategy_new)
    /\ origin = NoOrigin
    /\ now = StartClock
    /\ build = "release"
    /\ panicked = FALSE
    /\ ops = 0
    /\ phase = "strategy"
    /\ is_live = FALSE
    /\ is_running = TRUE
    /\ candle_buffer = <<>>
    /\ last_processed_candle_t = 0
    /\ strategy = AdaptiveStrategy_new
    /\ last_checked_hour = 0
    /\ orders = <<>>
    /\ store = <<>>
    /\ ev = NoEvent(PositionManager_new(Zero))
    /\ book = NoBook
    /\ detector = NoDetector
    /\ indicators = NoIndicators
    /\ history = NoFetch

StrategyStep ==
    /\ phase = "strategy"
    /\ ops < MaxStrategyCalls
    /\ ops' = ops + 1
    /\ UNCHANGED <<pm, origin, now, build, panicked, phase, is_live, is_running,
                   candle_buffer, last_processed_candle_t, last_checked_hour,
                   orders, store, ev, book, detector,
                   indicators, history>>

\* strategy.update(high, low, close)
StrategyUpdate ==
    /\ StrategyStep
    /\ \E candle \in StrategyCandles, ind \in StrategyInds :
         /\ strategy' = strategy_update(strategy, ind, F(candle.h), F(candle.l),
                                        F(candle.c)).strategy
         /\ call' = StrategyCall("update", ind, candle,
                                 strategy_update(strategy, ind, F(candle.h), F(candle.l),
                                                 F(candle.c)).signal)

\* strategy.check_exit_condition(high, low, close): takes &self
CheckExitCondition ==
    /\ StrategyStep
    /\ \E candle \in StrategyCandles :
         call' = StrategyCall("check_exit_condition", NotReady, candle,
                              check_exit_condition(strategy, F(candle.h)))
    /\ UNCHANGED strategy

\* strategy.force_exit(), which the feed calls when the probe returned a signal
ForceExit ==
    /\ StrategyStep
    /\ call.op = "check_exit_condition"
    /\ call.signal # "none"
    /\ strategy' = force_exit(strategy)
    /\ call' = StrategyCall("force_exit", NotReady, [h |-> 0, l |-> 0, c |-> 0], "none")

NextStrategy ==
    \/ StrategyUpdate
    \/ CheckExitCondition
    \/ ForceExit

SpecStrategy == InitStrategy /\ [][NextStrategy]_vars

(***************************************************************************)
(* Claims about the strategy (specification SpecStrategy)                  *)
(***************************************************************************)
\* the last call was update on a candle for which every indicator returned a value
UpdatedWithAllEmitted ==
    /\ call.op = "update"
    /\ call.ind.bb.some /\ call.ind.st.some /\ call.ind.adx.some

Ranging == FLt(call.ind.adx.value, adx_threshold)
Trending == FGe(call.ind.adx.value, adx_threshold)
Went(pt, sig) == strategy.position_type = pt /\ call.signal = sig

\* C12: from None with all indicators emitted, update goes to LongRange with
\* BuyRange iff Ranging and C < lower band, to LongTrend with BuyTrend iff
\* Trending, SuperTrend up and C > upper band, to ShortTrend with SellShort iff
\* Trending, SuperTrend down and C < lower band, and otherwise stays None with Hold
C12_EntriesFromNone ==
    (UpdatedWithAllEmitted /\ call.pre.position_type = "None")
        => LET range_entry == Ranging /\ FLt(call.close, call.ind.bb.lower)
               trend_entry == Trending /\ call.ind.st.up
                              /\ FGt(call.close, call.ind.bb.upper)
               short_entry == Trending /\ ~call.ind.st.up
                              /\ FLt(call.close, call.ind.bb.lower)
           IN  /\ Went("LongRange", "BuyRange") <=> range_entry
               /\ Went("LongTrend", "BuyTrend") <=> trend_entry
               /\ Went("ShortTrend", "SellShort") <=> short_entry
               /\ Went("None", "Hold") <=> ~(range_entry \/ trend_entry \/ short_entry)
               /\ \/ Went("LongRange", "BuyRange") \/ Went("LongTrend", "BuyTrend")
                  \/ Went("ShortTrend", "SellShort") \/ Went("None", "Hold")

C12_Witness ==
    /\ UpdatedWithAllEmitted
    /\ call.pre.position_type = "None"
    /\ Went("ShortTrend", "SellShort")
    /\ call.ind.adx.value = adx_threshold

\* C13: from LongRange with all indicators emitted, a candle whose high is at or
\* above the middle band moves the strategy to None with SellRange; so a BuyRange
\* from None followed by such a candle gives None -> LongRange -> None
C13_RangeExitAtMiddleBand ==
    (/\ UpdatedWithAllEmitted
     /\ call.pre.position_type = "LongRange"
     /\ FGe(call.high, call.ind.bb.middle))
        => Went("None", "SellRange")

C13_Witness ==
    /\ call.prev.op = "update"
    /\ call.prev.from = "None"
    /\ call.prev.signal = "BuyRange"
    /\ UpdatedWithAllEmitted
    /\ call.pre.position_type = "LongRange"
    /\ FGe(call.high, call.ind.bb.middle)
    /\ FLt(call.close, call.ind.bb.middle)
    /\ Went("None", "SellRange")

\* C14 (as claimed): from LongRange with all indicators emitted, a candle on which
\* the regime is Trending and C > middle band moves the strategy to LongTrend
\* with UpgradeToTrend
C14_UpgradeToTrend ==
    (/\ UpdatedWithAllEmitted
     /\ call.pre.position_type = "LongRange"
     /\ Trending
     /\ FGt(call.close, call.ind.bb.middle))
        => Went("LongTrend", "UpgradeToTrend")

\* C15: a LongTrend position is left only by update on a candle with SuperTrend
\* down (None, SellTrend) and a ShortTrend position only by update on a candle
\* with SuperTrend up (None, CoverShort); any other call leaves the position
\* type as it was and signals nothing but Hold
C15_TrendExitsOnSuperTrendFlip ==
    /\ call.pre.position_type = "LongTrend"
         => IF UpdatedWithAllEmitted /\ ~call.ind.st.up
            THEN Went("None", "SellTrend")
            ELSE strategy.position_type = "LongTrend" /\ call.signal \in {"Hold", "none"}
    /\ call.pre.position_type = "ShortTrend"
         => IF UpdatedWithAllEmitted /\ call.ind.st.up
            THEN Went("None", "CoverShort")
            ELSE strategy.position_type = "ShortTrend" /\ call.signal \in {"Hold", "none"}

C15_Witness ==
    /\ UpdatedWithAllEmitted
    /\ call.pre.position_type = "ShortTrend"
    /\ call.ind.st.up
    /\ Went("None", "CoverShort")

\* C16: update returns Hold and leaves the position type unchanged on a candle
\* for which Bollinger, SuperTrend or ADX has not returned a value
C16_HoldWhileWarmingUp ==
    (call.op = "update" /\ ~(call.ind.bb.some /\ call.ind.st.some /\ call.ind.adx.some))
        => /\ call.signal = "Hold"
           /\ strategy.position_type = call.pre.position_type

C16_Witness ==
    /\ call.op = "update"
    /\ call.ind.bb.some /\ call.ind.st.some /\ ~call.ind.adx.some
    /\ call.pre.position_type = "LongTrend"
    /\ ~call.ind.st.up
    /\ strategy.position_type = "LongTrend"

\* C17: check_exit_condition returns SellRange exactly when the position type is
\* LongRange and the high is at or above the middle band kept from the last
\* update on which Bollinger returned a value; it returns no signal otherwise
\* and changes nothing; force_exit is what sets the position type to None
C17_ProbeIsPure ==
    /\ call.op = "check_exit_condition"
         => /\ call.signal = "SellRange"
                 <=> /\ call.pre.position_type = "LongRange"
                     /\ call.pre.last_bollinger.some
                     /\ FGe(call.high, call.pre.last_bollinger.middle)
            /\ call.signal \in {"SellRange", "none"}
            /\ strategy = call.pre
            /\ (call.prev.op = "update" /\ call.prev.bb.some)
                 => call.pre.last_bollinger = call.prev.bb
    /\ call.op = "force_exit"
         => /\ strategy.position_type = "None"
            /\ strategy.last_bollinger = call.pre.last_bollinger

C17_Witness ==
    /\ call.op = "force_exit"
    /\ call.prev.op = "check_exit_condition"
    /\ call.prev.signal = "SellRange"
    /\ call.pre.position_type = "LongRange"
    /\ strategy.position_type = "None"

(***************************************************************************)
(* Specification SpecBook: an OrderBookImpl driven alone.  A book over the *)
(* prices [100, 103) receives Set and Remove updates on both sides, at     *)
(* prices in the range, just under it and at its upper end.  call records  *)
(* the last update, whether it hit the cached best index of its side       *)
(* (was_best) and whether the level held a quantity (had).                 *)
(***************************************************************************)
MaxBookUpdates == 5

BookPrices == 99 .. 103
BookQuantities == {0, 100, 250}
Sides == {"Bid", "Ask"}

NoUpdate ==
    [kind |-> "none", price |-> 0, quantity |-> 0, side |-> "Bid",
     was_best |-> FALSE, had |-> FALSE]

\* the cached best index of a side
side_best_idx(b, side) == IF side = "Bid" THEN b.best_bid_idx ELSE b.best_ask_idx

\* the record of an update applied to book b
Applied(b, update) ==
    [kind |-> update.kind, price |-> update.price, quantity |-> update.quantity,
     side |-> update.side,
     was_best |-> /\ price_to_idx(b, update.price).some
                  /\ side_best_idx(b, update.side) = price_to_idx(b, update.price),
     had |-> get_quantity_at(b, update.price, update.side).some]

InitBook ==
    /\ pm = PositionManager_new(Zero)
    /\ call = NoUpdate
    /\ origin = NoOrigin
    /\ now = StartClock
    /\ build = "release"
    /\ panicked = FALSE
    /\ ops = 0
    /\ phase = "book"
    /\ is_live = FALSE
    /\ is_running = TRUE
    /\ candle_buffer = <<>>
    /\ last_processed_candle_t = 0
    /\ strategy = AdaptiveStrategy_new
    /\ last_checked_hour = 0
    /\ orders = <<>>
    /\ store = <<>>
    /\ ev = NoEvent(PositionManager_new(Zero))
    /\ book = with_range(100, 103)
    /\ detector = NoDetector
    /\ indicators = NoIndicators
    /\ history = NoFetch

BookStep ==
    /\ phase = "book"
    /\ ops < MaxBookUpdates
    /\ ops' = ops + 1
    /\ UNCHANGED <<pm, origin, now, build, panicked, phase, is_live, is_running,
                   candle_buffer, last_processed_candle_t, strategy,
                   last_checked_hour, orders, store, ev, detector, indicators, history>>

\* apply_update(Update::Set { price, quantity, side })
ApplySet ==
    /\ BookStep
    /\ \E price \in BookPrices, quantity \in BookQuantities, side \in Sides :
         /\ book' = apply_update(book, Set(price, quantity, side))
         /\ call' = Applied(book, Set(price, quantity, side))

\* apply_update(Update::Remove { price, side })
ApplyRemove ==
    /\ BookStep
    /\ \E price \in BookPrices, side \in Sides :
         /\ book' = apply_update(book, Remove(price, side))
         /\ call' = Applied(book, Remove(price, side))

NextBook ==
    \/ ApplySet
    \/ ApplyRemove

SpecBook == InitBook /\ [][NextBook]_vars

(***************************************************************************)
(* Claims checked under SpecBook.                                          *)
(***************************************************************************)
\* the prices of the book's range and those that hold a quantity on a side
InRange(b) == b.min_price .. (b.max_price - 1)
BidPrices(b) == {p \in InRange(b) : b.bids[p - b.min_price] # 0}
AskPrices(b) == {p \in InRange(b) : b.asks[p - b.min_price] # 0}
SidePrices(b, side) == IF side = "Bid" THEN BidPrices(b) ELSE AskPrices(b)
Highest(S) == CHOOSE x \in S : \A y \in S : y <= x
Lowest(S) == CHOOSE x \in S : \A y \in S : x <= y

\* the best price of a set of levels of a side, None when there is none
BestOf(S, side) ==
    IF S = {} THEN NoneOpt
    ELSE Some(IF side = "Bid" THEN Highest(S) ELSE Lowest(S))

side_best(b, side) == IF side = "Bid" THEN get_best_bid(b) ELSE get_best_ask(b)

\* C27: whatever updates were applied, get_best_bid is the largest price of
\* the range with a non-zero bid quantity, get_best_ask the smallest with a
\* non-zero ask quantity (None for an empty side), and get_spread is best ask
\* minus best bid when both exist and None otherwise.
C27_BestPricesAndSpread ==
    /\ get_best_bid(book) = BestOf(BidPrices(book), "Bid")
    /\ get_best_ask(book) = BestOf(AskPrices(book), "Ask")
    /\ get_spread(book) =
         IF BidPrices(book) # {} /\ AskPrices(book) # {}
         THEN Some(Lowest(AskPrices(book)) - Highest(BidPrices(book)))
         ELSE NoneOpt

C27_Witness ==
    /\ call.kind = "Set"
    /\ call.side = "Ask"
    /\ call.quantity > 0
    /\ ~call.was_best
    /\ get_best_ask(book) = Some(call.price)
    /\ AskPrices(book) # {call.price}
    /\ get_best_bid(book).some
    /\ BidPrices(book) # {get_best_bid(book).v}
    /\ get_spread(book).some

\* erasing the level at price p of a side from book b, by Remove and by Set
\* with quantity 0
Erasing(b, p, side) ==
    /\ apply_update(b, Set(p, 0, side)) = apply_update(b, Remove(p, side))
    /\ get_quantity_at(apply_update(b, Remove(p, side)), p, side) = NoneOpt
    /\ get_quantity_at(apply_update(b, Set(p, 0, side)), p, side) = NoneOpt
    /\ side_best(apply_update(b, Remove(p, side)), side)
         = BestOf(SidePrices(b, side) \ {p}, side)
    /\ side_best(apply_update(b, Set(p, 0, side)), side)
         = BestOf(SidePrices(b, side) \ {p}, side)

\* C28: from every reachable book and for every price of the range and side,
\* Set with quantity 0 and Remove give the same book, in which
\* get_quantity_at of that level is None and the best price of the side is the
\* best of the levels that remain (None when none remains); the book after
\* such an update has no quantity at its price.  With bids at 100, 101 and
\* 102, removing 102 gives best bid 101 and Set(101, 0, Bid) then gives 100.
C28_ErasedLevelAndNextBest ==
    /\ \A p \in InRange(book), side \in Sides : Erasing(book, p, side)
    /\ (call.kind \in {"Set", "Remove"} /\ call.quantity = 0)
         => get_quantity_at(book, call.price, call.side) = NoneOpt
    /\ BidPrices(book) = {100, 101, 102}
         => /\ get_best_bid(apply_update(book, Remove(102, "Bid"))) = Some(101)
            /\ get_best_bid(apply_update(apply_update(book, Remove(102, "Bid")),
                                         Set(101, 0, "Bid"))) = Some(100)

C28_Witness ==
    /\ call.kind = "Set"
    /\ call.price = 101
    /\ call.quantity = 0
    /\ call.side = "Bid"
    /\ call.was_best
    /\ call.had
    /\ BidPrices(book) = {100}
    /\ get_best_bid(book) = Some(100)
    /\ get_quantity_at(book, 101, "Bid") = NoneOpt

\* C29: whenever the book has both a best bid and a best ask, the best bid is
\* strictly under the best ask (best_bid_idx < best_ask_idx).
C29_NeverCrossedOrLocked ==
    (book.best_bid_idx.some /\ book.best_ask_idx.some)
        => book.best_bid_idx.v < book.best_ask_idx.v

\* an update was applied at a price outside [min_price, max_price)
OutOfRangeStep ==
    /\ ops' = ops + 1
    /\ call'.kind \in {"Set", "Remove"}
    /\ call'.price \notin InRange(book)

\* C30: an update at a price outside [min_price, max_price), of either kind
\* and side, max_price and min_price - 1 included, leaves both quantity arrays
\* and both best indices as they were, and get_quantity_at of such a price is
\* None.
C30_OutOfRangeIgnored ==
    [][OutOfRangeStep
         => /\ book'.bids = book.bids
            /\ book'.asks = book.asks
            /\ book'.best_bid_idx = book.best_bid_idx
            /\ book'.best_ask_idx = book.best_ask_idx
            /\ get_quantity_at(book', call'.price, call'.side) = NoneOpt
            /\ get_quantity_at(book', book.max_price, call'.side) = NoneOpt
            /\ get_quantity_at(book', book.min_price - 1, call'.side) = NoneOpt]_vars

C30_Witness ==
    /\ call.kind = "Set"
    /\ call.quantity > 0
    /\ call.price = book.max_price
    /\ BidPrices(book) # {}
    /\ AskPrices(book) # {}
    /\ get_quantity_at(book, call.price, call.side) = NoneOpt


(***************************************************************************)
(* Specification SpecTriangle: the loop of BacktestEngine::run, which      *)
(* applies each update to the book of its pair and then calls              *)
(* detect_opportunities with the starting capital.  The books are narrow   *)
(* windows around a price of 1.0 in each pair's own units (10000, 10000    *)
(* and 100000000 ticks).                                                   *)
(***************************************************************************)
MaxTriangleUpdates == 6

Pair1Prices == 9999 .. 10001
Pair2Prices == 10000 .. 10001
Pair3Prices == {100000000}
PairQuantity == 100
StartingCapitals == {F(1), F(10)}
MinProfitBps == {Zero, F(2)}

NoDetection ==
    [kind |-> "none", starting_amount |-> F(1),
     forward |-> NoOpportunity, reverse |-> NoOpportunity]

InitTriangle ==
    /\ pm = PositionManager_new(Zero)
    /\ \E starting_capital \in StartingCapitals :
         call = [NoDetection EXCEPT !.starting_amount = starting_capital]
    /\ origin = NoOrigin
    /\ now = StartClock
    /\ build = "release"
    /\ panicked = FALSE
    /\ ops = 0
    /\ phase = "triangle"
    /\ is_live = FALSE
    /\ is_running = TRUE
    /\ candle_buffer = <<>>
    /\ last_processed_candle_t = 0
    /\ strategy = AdaptiveStrategy_new
    /\ last_checked_hour = 0
    /\ orders = <<>>
    /\ store = <<>>
    /\ ev = NoEvent(PositionManager_new(Zero))
    /\ book = NoBook
    /\ indicators = NoIndicators
    /\ history = NoFetch
    /\ \E min_profit_bps \in MinProfitBps :
         detector = Detector(with_range(9999, 10002), with_range(10000, 10002),
                             with_range(100000000, 100000001),
                             Zero, min_profit_bps)

TriangleStep ==
    /\ phase = "triangle"
    /\ ops < MaxTriangleUpdates
    /\ ops' = ops + 1
    /\ UNCHANGED <<pm, origin, now, build, panicked, phase, is_live, is_running,
                   candle_buffer, last_processed_candle_t, strategy,
                   last_checked_hour, orders, store, ev, book, indicators, history>>

\* the updates a pair's feed can send
PairUpdates(prices) ==
    {Set(price, PairQuantity, side) : price \in prices, side \in Sides}
        \cup {Remove(price, side) : price \in prices, side \in Sides}

\* one iteration of the loop of BacktestEngine::run on the detector with the
\* update applied to the book of its pair
Detected(pair, d) ==
    \E r \in {detect_opportunities(d, call.starting_amount)} :
        /\ detector' = r.detector
        /\ call' = [kind |-> pair, starting_amount |-> call.starting_amount,
                    forward |-> r.forward, reverse |-> r.reverse]

\* 1 => self.detector.pair1.apply_update(update), then detect_opportunities
UpdatePair1 ==
    /\ TriangleStep
    /\ \E update \in PairUpdates(Pair1Prices) :
         Detected("pair1", [detector EXCEPT !.pair1 = apply_update(@, update)])

\* 2 => self.detector.pair2.apply_update(update), then detect_opportunities
UpdatePair2 ==
    /\ TriangleStep
    /\ \E update \in PairUpdates(Pair2Prices) :
         Detected("pair2", [detector EXCEPT !.pair2 = apply_update(@, update)])

\* 3 => self.detector.pair3.apply_update(update), then detect_opportunities
UpdatePair3 ==
    /\ TriangleStep
    /\ \E update \in PairUpdates(Pair3Prices) :
         Detected("pair3", [detector EXCEPT !.pair3 = apply_update(@, update)])

NextTriangle ==
    \/ UpdatePair1
    \/ UpdatePair2
    \/ UpdatePair3

SpecTriangle == InitTriangle /\ [][NextTriangle]_vars

(***************************************************************************)
(* Claims checked under SpecTriangle.                                      *)
(***************************************************************************)
\* the detector has just refreshed its cache and all six prices are positive
AllSixPositive ==
    /\ phase = "triangle"
    /\ call.kind # "none"
    /\ FGt(detector.cached_price1_ask, Zero) /\ FGt(detector.cached_price1_bid, Zero)
    /\ FGt(detector.cached_price2_ask, Zero) /\ FGt(detector.cached_price2_bid, Zero)
    /\ FGt(detector.cached_price3_ask, Zero) /\ FGt(detector.cached_price3_bid, Zero)

\* profit = final_amount - starting_amount of each path
forward_profit == FSub(forward_final_amount(detector, call.starting_amount),
                       call.starting_amount)
reverse_profit == FSub(reverse_final_amount(detector, call.starting_amount),
                       call.starting_amount)

MaxIndicatorUpdates == 6

Periods == 1 .. 3
IndicatorCandles ==
    {[h |-> F(11), l |-> F(9), c |-> F(10)],
     [h |-> F(13), l |-> F(10), c |-> F(12)],
     [h |-> F(12), l |-> F(8), c |-> F(9)],
     [h |-> F(15), l |-> F(12), c |-> F(14)]}

InitIndicators ==
    /\ pm = PositionManager_new(Zero)
    /\ call = NoCall(PositionManager_new(Zero))
    /\ origin = NoOrigin
    /\ now = StartClock
    /\ build = "release"
    /\ panicked = FALSE
    /\ ops = 0
    /\ phase = "indicators"
    /\ is_live = FALSE
    /\ is_running = TRUE
    /\ candle_buffer = <<>>
    /\ last_processed_candle_t = 0
    /\ strategy = AdaptiveStrategy_new
    /\ last_checked_hour = 0
    /\ orders = <<>>
    /\ store = <<>>
    /\ ev = NoEvent(PositionManager_new(Zero))
    /\ book = NoBook
    /\ detector = NoDetector
    /\ history = NoFetch
    /\ \E period \in Periods :
         indicators = [NoIndicators EXCEPT !.adx = ADX_new(period),
                                           !.rsi = RSI_new(period)]

\* self.adx.update(high, low, close) and self.rsi.update(close) on one candle
UpdateIndicators ==
    /\ phase = "indicators"
    /\ ops < MaxIndicatorUpdates
    /\ ops' = ops + 1
    /\ \E candle \in IndicatorCandles :
       \E a \in {ADX_update(indicators.adx, candle.h, candle.l, candle.c)} :
       \E r \in {RSI_update(indicators.rsi, candle.c)} :
         indicators' = [adx |-> a.adx, rsi |-> r.rsi,
                        adx_out |-> a.out, rsi_out |-> r.out,
                        seeded |-> ~indicators.rsi.prev_avg_gain.some /\ r.out.some]
    /\ UNCHANGED <<pm, call, origin, now, build, panicked, phase, is_live, is_running,
                   candle_buffer, last_processed_candle_t, strategy,
                   last_checked_hour, orders, store, ev, book, detector, history>>

NextIndicators == UpdateIndicators

SpecIndicators == InitIndicators /\ [][NextIndicators]_vars

(***************************************************************************)
(* Claims checked under SpecIndicators.                                    *)
(***************************************************************************)
\* the indicators have been updated at least once
Updated == phase = "indicators" /\ ops >= 1

\* C32: ADX with period N returns None on each of its first 2N - 1 updates and
\* a value on every update from the 2N-th on.
C32_AdxWarmupLength ==
    Updated => (indicators.adx_out.some <=> ops >= 2 * indicators.adx.period)
C32_Witness ==
    /\ Updated
    /\ indicators.adx.period >= 2
    /\ ops = 2 * indicators.adx.period
    /\ indicators.adx_out.some

\* 0 <= v <= 100 and 0 < v < 100 for a rational v in lowest terms, compared
\* through the quotient v.n \div 100 so that 100 * v.d is never formed
WithinZeroAndHundred(v) ==
    /\ v.n >= 0
    /\ \/ v.n \div 100 < v.d
       \/ v.n \div 100 = v.d /\ v.n % 100 = 0
StrictlyInside(v) == v.n > 0 /\ v.n \div 100 < v.d

C34_RsiHundredWithoutLosses ==
    (Updated /\ indicators.rsi_out.some /\ indicators.rsi.prev_avg_loss.v = Zero)
        => indicators.rsi_out.v = Hundred


(***************************************************************************)
(* Specification SpecHistory: one call of fetch_candles_paginated, a step  *)
(* per request of its loop and a step for its sort, dedup and return.      *)
(***************************************************************************)
\* chrono::Utc::now() in hours
FetchNows == {480000, 480011}
\* end_time - start_time in hours: the one-year and two-year ranges of
\* fetch_one_year and fetch_two_years, and other lengths
RangeHours ==
    {CANDLES_PER_YEAR, CANDLES_PER_YEAR * 2, 1, 4998, 4999, 5000, 5001, 9997,
     9998, 10000, 15000}
\* hours per candle of self.interval ("1d", "1w")
IntervalHours == {24, 168}
\* how long before now the coin was listed
ListedHoursAgo == {6000, 480011}

InitHistory ==
    /\ pm = PositionManager_new(Zero)
    /\ call = NoCall(PositionManager_new(Zero))
    /\ origin = NoOrigin
    /\ now = StartClock
    /\ build = "release"
    /\ panicked = FALSE
    /\ ops = 0
    /\ phase = "history"
    /\ is_live = FALSE
    /\ is_running = TRUE
    /\ candle_buffer = <<>>
    /\ last_processed_candle_t = 0
    /\ strategy = AdaptiveStrategy_new
    /\ last_checked_hour = 0
    /\ orders = <<>>
    /\ store = <<>>
    /\ ev = NoEvent(PositionManager_new(Zero))
    /\ book = NoBook
    /\ detector = NoDetector
    /\ indicators = NoIndicators
    /\ \E fetch_now \in FetchNows, hours \in RangeHours, interval \in IntervalHours,
          listed \in ListedHoursAgo :
         history = fetch_candles_paginated(fetch_now - hours, fetch_now, interval,
                                           IF listed >= fetch_now THEN 0
                                           ELSE fetch_now - listed)

HistoryStep ==
    /\ phase = "history"
    /\ ops' = ops + 1
    /\ UNCHANGED <<pm, call, origin, now, build, panicked, phase, is_live, is_running,
                   candle_buffer, last_processed_candle_t, strategy,
                   last_checked_hour, orders, store, ev, book, detector, indicators>>

\* the candles the exchange returns for the request about to be sent
answer(h) == candleSnapshot(h.current_start, current_end(h), h.interval, h.listed_from)

\* a request of the loop that receives candles
FetchRequestAnswered ==
    /\ HistoryStep
    /\ history.at = "loop"
    /\ history.request_num <= history.num_requests
    /\ answer(history) # <<>>
    /\ history' = request_answered(history, answer(history))

\* a request of the loop that receives no candle
FetchRequestEmpty ==
    /\ HistoryStep
    /\ history.at = "loop"
    /\ history.request_num <= history.num_requests
    /\ answer(history) = <<>>
    /\ history' = request_empty(history)

\* the loop has ended: sort, dedup and return
FetchReturn ==
    /\ HistoryStep
    /\ \/ history.at = "sort"
       \/ history.at = "loop" /\ history.request_num > history.num_requests
    /\ history' = fetch_return(history)

NextHistory ==
    \/ FetchRequestAnswered
    \/ FetchRequestEmpty
    \/ FetchReturn

SpecHistory == InitHistory /\ [][NextHistory]_vars

(***************************************************************************)
(* Claims checked under SpecHistory.                                       *)
(***************************************************************************)
\* the call has returned after every request was answered with candles
ReturnedAfterAnswers ==
    phase = "history" /\ history.at = "returned" /\ ~history.empty_response

=============================================================================
